---- MODULE Spec2Model ----
(***************************************************************************)
(* A model of src/scraper.py: the two site adapters PokemonCardScraper     *)
(* ("pokellector") and TCGCollectorScraper ("tcgcollector"), their fetch   *)
(* client (get_soup), their download manager (download_image with the      *)
(* Progress Set and its persisted file), their list-page pagination and    *)
(* extraction (get_cards_from_set, get_sets), the archive and the driver   *)
(* (main).                                                                 *)
(*                                                                         *)
(* Six specifications share the variables:                                 *)
(*   Spec        runs of main: construct a scraper, call download_image,   *)
(*               archive, exit (or be interrupted);                        *)
(*   FetchSpec   calls of get_soup, one session.get per step;              *)
(*   PageSpec    calls of get_cards_from_set, one list page per step;      *)
(*   ScanSpec    the first list page of one call, one item per step;       *)
(*   MainSpec    the loop of main over the selected sets;                  *)
(*   ExtractSpec one extraction of a card record or of the set list.       *)
(* Each specification leaves the variables of the others unchanged.        *)
(***************************************************************************)
EXTENDS Integers, Sequences, FiniteSets, TLC

VARIABLES
    phase,             \* where main is: "idle" (no process), "ready" (scraper built,
                       \* between download_image calls), "attempt" (inside the retry
                       \* loop of PokemonCardScraper.download_image)
    source,            \* the adapter get_scraper returned
    language,          \* scraper.language
    output_dir,        \* scraper.output_dir as main sets it
    downloaded_files,  \* scraper.downloaded_files, the in-memory Progress Set
    progressJson,      \* <script dir>/pokemon_cards/progress.json (PokemonCardScraper)
    baseProgressJson,  \* ./progress.json (BaseScraper, read by TCGCollectorScraper)
    disk,              \* image files under the output roots: path -> size in bytes
    call,              \* the current or the last download_image call
    idPaths,           \* history: every <<download_id, filepath>> download_image computed
    runs,              \* number of scrapers constructed so far
    calls,             \* number of download_image calls so far
    zipped,            \* this run's download count, the files download_image gave
                       \* True for, and the last create_zip_archive call
    fetch,             \* the current or the last get_soup call
    listing,           \* the current or the last get_cards_from_set call
    drv,               \* the driver: where main is in its loop over the sets
    extract            \* the last extraction of a card record or of the set list

dlVars == <<phase, source, language, output_dir, downloaded_files, progressJson,
            baseProgressJson, disk, call, idPaths, runs, calls, zipped>>
vars == <<dlVars, fetch, listing, drv, extract>>

----------------------------------------------------------------------------
(* Bounds of the model. *)

NumCards == 2   \* card numbers 1..NumCards of one set
MaxRuns == 2    \* runs of main in one behaviour
MaxCalls == 2   \* download_image calls in one behaviour
MaxItems == 2   \* card containers or card links on one list page
MaxListed == 2  \* records TCGCollectorScraper.get_cards_from_set collects
MaxSets == 2    \* sets get_sets finds, and sets the user selects

----------------------------------------------------------------------------
(* Strings.  A text the code inspects character by character is a sequence *)
(* of one-character strings; Str joins it into a string.                   *)

RECURSIVE Str(_)
Str(s) == IF s = <<>> THEN "" ELSE Head(s) \o Str(Tail(s))

Digits == <<"0", "1", "2", "3", "4", "5", "6", "7", "8", "9">>

IsDigit(c) == \E i \in 1..10 : Digits[i] = c

DigitValue(c) == (CHOOSE i \in 1..10 : Digits[i] = c) - 1

\* str.isdigit() of a non-empty ASCII text; int() accepts exactly these here
IsDecimal(s) == s /= <<>> /\ \A i \in 1..Len(s) : IsDigit(s[i])

RECURSIVE ParseInt(_)
ParseInt(s) ==
    IF s = <<>> THEN 0 ELSE 10 * ParseInt(SubSeq(s, 1, Len(s) - 1)) + DigitValue(s[Len(s)])

RECURSIVE IntToStr(_)
IntToStr(n) ==
    IF n < 10 THEN <<Digits[n + 1]>> ELSE IntToStr(n \div 10) \o <<Digits[(n % 10) + 1]>>

\* str.zfill(width)
RECURSIVE ZFill(_, _)
ZFill(s, width) == IF Len(s) >= width THEN s ELSE ZFill(<<"0">> \o s, width)

WordChars ==
    {"a", "b", "c", "d", "e", "f", "g", "h", "i", "j", "k", "l", "m", "n", "o", "p", "q",
     "r", "s", "t", "u", "v", "w", "x", "y", "z", "A", "B", "C", "D", "E", "F", "G", "H",
     "I", "J", "K", "L", "M", "N", "O", "P", "Q", "R", "S", "T", "U", "V", "W", "X", "Y",
     "Z", "_"} \cup {Digits[i] : i \in 1..10}

\* str.strip() for the blank
RECURSIVE Strip(_)
Strip(s) ==
    IF s = <<>> THEN s
    ELSE IF Head(s) = " " THEN Strip(Tail(s))
    ELSE IF s[Len(s)] = " " THEN Strip(SubSeq(s, 1, Len(s) - 1))
    ELSE s

\* re.sub(r'\s+', '-', s)
RECURSIVE HyphenateBlanks(_)
HyphenateBlanks(s) ==
    IF s = <<>> THEN s
    ELSE IF Head(s) = " "
         THEN IF Len(s) > 1 /\ s[2] = " " THEN HyphenateBlanks(Tail(s))
              ELSE <<"-">> \o HyphenateBlanks(Tail(s))
         ELSE <<Head(s)>> \o HyphenateBlanks(Tail(s))

IsSafeNameChar(c) == c \in WordChars \/ c = " " \/ c = "-"

\* TCGCollectorScraper.download_image: the name as it goes into the filename
SafeName(name) == HyphenateBlanks(Strip(SelectSeq(name, IsSafeNameChar)))

----------------------------------------------------------------------------
(* Card records as download_image reads them. *)

Sources == {"pokellector", "tcgcollector"}
Languages == {"en", "jp"}
OutputDirs == {"pokemon_cards"}
SetCodes == {"base"}
ImageUrl == "https://img.example/card.png"
CardName == <<"M", "r", ".", " ", "M", "i", "m", "e">>

\* PokemonCardScraper's records carry the number already zero-padded to three
\* digits.
PokellectorCards ==
    [set_code : SetCodes, number : {ZFill(IntToStr(i), 3) : i \in 1..NumCards},
     name : {CardName}, image_url : {ImageUrl}]

\* TCGCollectorScraper's records carry the number text of the page, or "0".
TCGCards ==
    [set_code : SetCodes, number : {IntToStr(i) : i \in 1..NumCards},
     name : {CardName}, image_url : {ImageUrl}]

CardsOf(src) == IF src = "pokellector" THEN PokellectorCards ELSE TCGCards

\* The Download Identities a progress file can hold.
Ids == {sc \o "-" \o Str(ZFill(IntToStr(i), 3)) : sc \in SetCodes, i \in 1..NumCards}

----------------------------------------------------------------------------
(* PokemonCardScraper.download_image: path and identity. *)

DownloadId(card) == card.set_code \o "-" \o Str(card.number)

PokellectorFilename(card) == card.set_code \o "-" \o Str(card.number) \o ".png"

PokellectorFilepath(dir, lang, card) ==
    <<dir, "pokellector", lang, card.set_code, PokellectorFilename(card)>>

(* TCGCollectorScraper.download_image: number formatting, filename, path. *)

TCGCardNumber(card) ==
    IF IsDecimal(card.number) THEN ZFill(IntToStr(ParseInt(card.number)), 3)
    ELSE card.number

TCGFilename(card) ==
    card.set_code \o "-" \o Str(TCGCardNumber(card)) \o "-" \o Str(SafeName(card.name))
        \o ".jpg"

TCGFilepath(dir, lang, card) ==
    <<dir, "tcgcollector", lang, card.set_code, TCGFilename(card)>>

\* TCGCollectorScraper.download_image computes no identity; this is the
\* identity set_code-number of the design, with the number as the filename has it.
TCGDownloadId(card) == card.set_code \o "-" \o Str(TCGCardNumber(card))

----------------------------------------------------------------------------
(* The filesystem: image files, and the two progress files. *)

Exists(d, p) == p \in DOMAIN d

WriteFile(d, p, size) == [q \in DOMAIN d \cup {p} |-> IF q = p THEN size ELSE d[q]]

RemoveFile(d, p) == [q \in DOMAIN d \ {p} |-> d[q]]

AbsentFile == [state |-> "absent", ids |-> {}]

SaveOutcomes == {"ok", "open_error", "dump_error"}

\* save_progress: open(progress_file, 'w') then json.dump, any error logged and
\* swallowed.  A failing open leaves the file as it was; a failing dump leaves
\* it truncated.
save_progress(file, ids, outcome) ==
    CASE outcome = "ok" -> [state |-> "valid", ids |-> ids]
      [] outcome = "open_error" -> file
      [] outcome = "dump_error" -> [state |-> "corrupt", ids |-> {}]

\* load_progress / _load_progress into a fresh empty set: a missing file is
\* skipped, an unreadable one is logged and skipped.
load_progress(file) == IF file.state = "valid" THEN file.ids ELSE {}

----------------------------------------------------------------------------
(* download_image calls. *)

MinReasonableSize == 1024
MaxDownloadAttempts == 3

BodySizes == {0, MinReasonableSize, MinReasonableSize + 1}

\* What one session.get + streaming to disk can do:
\*   get_error    session.get raises (timeout, connection error, bad URL)
\*   http_error   raise_for_status raises
\*   open_error   open(filepath, 'wb') raises: the file is not touched
\*   write_error  iter_content or f.write raises after open truncated the file
\*   body         the whole body, of the given size, is written
\*   interrupt    KeyboardInterrupt while streaming, after open truncated the file
AttemptOutcomes ==
    [kind : {"get_error", "http_error", "open_error", "write_error", "interrupt"},
     size : {0}]
      \cup [kind : {"body"}, size : BodySizes]

\* An empty img_url never leaves session.get: requests raises MissingSchema.
OutcomesFor(card) ==
    IF card.image_url = "" THEN {o \in AttemptOutcomes : o.kind = "get_error"}
    ELSE AttemptOutcomes

NoCall ==
    [card |-> [set_code |-> "", number |-> <<>>, name |-> <<>>, image_url |-> ""],
     filepath |-> <<>>, download_id |-> "", attempt |-> 0, gets |-> 0, sleeps |-> <<>>,
     all_empty |-> TRUE, flushes |-> 0, was_listed |-> FALSE, size_before |-> 0 - 1,
     result |-> "none"]

NewCall(card, path, id) ==
    [NoCall EXCEPT !.card = card, !.filepath = path, !.download_id = id,
                   !.was_listed = id \in downloaded_files,
                   !.size_before = IF Exists(disk, path) THEN disk[path] ELSE 0 - 1,
                   !.result = "pending"]

\* No create_zip_archive call yet in this run.  reported and old_archive outlive
\* the run: the files download_image returned True for, and whether an
\* archive of an earlier run lies in the output directory.
NoZip ==
    [successes |-> 0, reported |-> {}, result |-> "none", entries |-> {},
     old_archive |-> FALSE]

\* Lines 899-901 of main: a download_image call that returned True is counted,
\* and its file is one main reported as downloaded.
Counted(z, c) ==
    IF c.result = "True"
    THEN [z EXCEPT !.successes = @ + 1, !.reported = @ \cup {c.filepath}]
    ELSE z

\* Lines 729-732: skip if the file exists or the identity is in the Progress Set.
PokellectorSkips(path, id) == Exists(disk, path) \/ id \in downloaded_files

\* Lines 710-734: entry of PokemonCardScraper.download_image up to the retry loop.
PokellectorDownloadBegin(card) ==
    LET path == PokellectorFilepath(output_dir, language, card)
        id == DownloadId(card)
        c == NewCall(card, path, id)
    IN  /\ phase = "ready" /\ source = "pokellector" /\ calls < MaxCalls
        /\ zipped.result = "none"
        /\ calls' = calls + 1
        /\ idPaths' = idPaths \cup {<<id, path>>}
        /\ IF PokellectorSkips(path, id)
           THEN /\ call' = [c EXCEPT !.result = "True"]
                /\ phase' = "ready"
           ELSE /\ call' = c
                /\ phase' = "attempt"
        /\ zipped' = Counted(zipped, call')
        /\ UNCHANGED <<source, language, output_dir, downloaded_files, progressJson,
                       baseProgressJson, disk, runs, fetch, listing, drv, extract>>

\* Line 759: the except clause knows the last attempt.
IsLastAttempt(attempt) == attempt = MaxDownloadAttempts - 1

\* Line 749: the file counts as downloaded.
DownloadedCorrectly(size) == size > 0

\* Lines 758-766: an attempt failed with an Exception.
PokellectorAttemptFailed(c, d) ==
    IF IsLastAttempt(c.attempt)
    THEN /\ disk' = IF Exists(d, c.filepath) THEN RemoveFile(d, c.filepath) ELSE d
         /\ call' = [c EXCEPT !.result = "False"]
         /\ phase' = "ready"
    ELSE /\ disk' = d
         /\ call' = [c EXCEPT !.attempt = @ + 1, !.sleeps = Append(@, 2 ^ c.attempt)]
         /\ phase' = "attempt"

\* Lines 738-766: one pass of the retry loop of PokemonCardScraper.download_image.
\* A KeyboardInterrupt is no Exception: it leaves download_image and the loops of
\* main, whose finally clause saves the progress (lines 926-933).
PokellectorAttempt(o, saveOutcome) ==
    LET c == [call EXCEPT !.gets = @ + 1,
                          !.all_empty = @ /\ o.kind = "body" /\ o.size = 0]
        path == call.filepath
    IN  /\ phase = "attempt"
        /\ o \in OutcomesFor(call.card)
        /\ CASE o.kind \in {"get_error", "http_error", "open_error"} ->
                  /\ PokellectorAttemptFailed(c, disk)
                  /\ UNCHANGED <<downloaded_files, progressJson>>
             [] o.kind = "write_error" ->
                  /\ PokellectorAttemptFailed(c, WriteFile(disk, path, o.size))
                  /\ UNCHANGED <<downloaded_files, progressJson>>
             [] o.kind = "body" /\ DownloadedCorrectly(o.size) ->
                  /\ disk' = WriteFile(disk, path, o.size)
                  /\ downloaded_files' = downloaded_files \cup {call.download_id}
                  /\ progressJson' =
                        save_progress(progressJson, downloaded_files', saveOutcome)
                  /\ call' = [c EXCEPT !.result = "True", !.flushes = @ + 1]
                  /\ phase' = "ready"
             [] o.kind = "body" /\ ~DownloadedCorrectly(o.size) ->
                  /\ PokellectorAttemptFailed(c, RemoveFile(WriteFile(disk, path, o.size), path))
                  /\ UNCHANGED <<downloaded_files, progressJson>>
             [] o.kind = "interrupt" ->
                  /\ disk' = WriteFile(disk, path, o.size)
                  /\ call' = [c EXCEPT !.result = "interrupt"]
                  /\ progressJson' = save_progress(progressJson, downloaded_files, saveOutcome)
                  /\ phase' = "idle"
                  /\ UNCHANGED downloaded_files
        /\ zipped' = Counted(zipped, call')
        /\ UNCHANGED <<source, language, output_dir, baseProgressJson, idPaths, runs, calls,
                       fetch, listing, drv, extract>>

\* Lines 1168-1174: an existing file of a reasonable size is skipped.
TCGSkips(d, path) == Exists(d, path) /\ d[path] > MinReasonableSize

\* Lines 1137-1190: TCGCollectorScraper.download_image, one session.get.
TCGDownloadImage(card, o) ==
    LET path == TCGFilepath(output_dir, language, card)
        c == NewCall(card, path, TCGDownloadId(card))
    IN  /\ phase = "ready" /\ source = "tcgcollector" /\ calls < MaxCalls
        /\ zipped.result = "none"
        /\ o \in OutcomesFor(card)
        /\ calls' = calls + 1
        /\ IF card.image_url = ""
           THEN /\ call' = [c EXCEPT !.result = "False"]
                /\ UNCHANGED <<disk, phase>>
           ELSE IF TCGSkips(disk, path)
           THEN /\ call' = [c EXCEPT !.result = "True"]
                /\ UNCHANGED <<disk, phase>>
           ELSE LET g == [c EXCEPT !.gets = 1, !.all_empty = o.kind = "body" /\ o.size = 0]
                IN  CASE o.kind \in {"get_error", "http_error", "open_error"} ->
                           /\ call' = [g EXCEPT !.result = "False"]
                           /\ UNCHANGED <<disk, phase>>
                      [] o.kind = "write_error" ->
                           /\ call' = [g EXCEPT !.result = "False"]
                           /\ disk' = WriteFile(disk, path, o.size)
                           /\ UNCHANGED phase
                      [] o.kind = "body" ->
                           /\ call' = [g EXCEPT !.result = "True"]
                           /\ disk' = WriteFile(disk, path, o.size)
                           /\ UNCHANGED phase
                      [] o.kind = "interrupt" ->
                           /\ call' = [g EXCEPT !.result = "interrupt"]
                           /\ disk' = WriteFile(disk, path, o.size)
                           /\ phase' = "idle"
        /\ zipped' = Counted(zipped, call')
        /\ UNCHANGED <<source, language, output_dir, downloaded_files, progressJson,
                       baseProgressJson, idPaths, runs, fetch, listing, drv, extract>>

\* Lines 838-842 with 81-136 and 938-941: get_scraper builds the adapter, which
\* loads its progress file; main then sets the output directory.  The files of
\* the two adapters are disjoint (the source is part of every image path, and
\* each adapter has its own progress file), so a behaviour follows the runs of
\* one adapter.
NewRun(lang, dir) ==
    /\ phase = "idle" /\ runs < MaxRuns
    /\ runs' = runs + 1
    /\ language' = lang /\ output_dir' = dir
    /\ downloaded_files' =
          IF source = "pokellector" THEN load_progress(progressJson)
          ELSE load_progress(baseProgressJson)
    /\ phase' = "ready"
    /\ call' = NoCall
    /\ zipped' = [NoZip EXCEPT !.reported = zipped.reported,
                               !.old_archive = zipped.old_archive]
    /\ UNCHANGED <<source, progressJson, baseProgressJson, disk, idPaths, calls, fetch,
                   listing, drv, extract>>

\* Lines 926-933: main ends; only an adapter with a save_progress method saves.
ExitRun(saveOutcome) ==
    /\ phase = "ready"
    /\ progressJson' =
          IF source = "pokellector"
          THEN save_progress(progressJson, downloaded_files, saveOutcome)
          ELSE progressJson
    /\ phase' = "idle"
    /\ call' = NoCall
    /\ UNCHANGED <<source, language, output_dir, downloaded_files, baseProgressJson, disk,
                   idPaths, runs, calls, zipped, fetch, listing,
                       drv, extract>>

\* main is not running.
NoMain ==
    [pc |-> "none", constructed |-> FALSE, nsets |-> 0, selected |-> <<>>, idx |-> 1,
     ncards |-> 0, card |-> 1, extracted |-> <<>>, errors |-> {}, total_cards |-> 0,
     successful_downloads |-> 0, summary |-> {}, ending |-> "running", flushes |-> 0,
     flushed_ok |-> FALSE, success_count |-> 0, passed |-> <<>>]

NoExtract == [kind |-> "none"]

(* create_zip_archive.  A file of the walk is its path and its extension. *)

PokellectorImageExts == {".png", ".jpg", ".jpeg", ".gif"}
TCGImageExts == {".jpg", ".jpeg", ".png", ".webp"}

\* Lines 723 and 1165: the extension download_image gives a file.
ImageExt(path) == IF path[2] = "pokellector" THEN ".png" ELSE ".jpg"

\* os.walk(self.output_dir): the image files download_image left there, the
\* progress.json of PokemonCardScraper (which lies in pokemon_cards/ next to the
\* script) once it is written, and the archive of an earlier TCGCollectorScraper
\* run (line 1198 puts it into the output directory).
WalkFiles(dir) ==
    {[path |-> p, ext |-> ImageExt(p)] : p \in {q \in DOMAIN disk : q[1] = dir}}
      \cup (IF progressJson.state /= "absent" /\ dir = "pokemon_cards"
            THEN {[path |-> <<dir, "progress.json">>, ext |-> ".json"]} ELSE {})
      \cup (IF zipped.old_archive
            THEN {[path |-> <<dir, "pokemon_cards_tcgcollector.zip">>, ext |-> ".zip"]}
            ELSE {})

\* Lines 783-790 and 1204-1218: the files written into the archive.
ArchivedFiles(dir, exts) == {f.path : f \in {g \in WalkFiles(dir) : g.ext \in exts}}

\* Lines 915-917 with 774-797 and 1192-1225: main calls create_zip_archive once,
\* after the loop, if a download succeeded.  zipOk: zipfile raises nothing.
CreateZipArchive(zipOk) ==
    LET exts == IF source = "pokellector" THEN PokellectorImageExts ELSE TCGImageExts
        files == ArchivedFiles(output_dir, exts)
        made == zipOk /\ (source = "tcgcollector" => files /= {})
    IN  /\ phase = "ready" /\ zipped.result = "none" /\ zipped.successes > 0
        /\ zipped' =
              IF made
              THEN [zipped EXCEPT !.result = "path", !.entries = files,
                                  !.old_archive = @ \/ source = "tcgcollector"]
              ELSE [zipped EXCEPT !.result = ""]
        /\ UNCHANGED <<phase, source, language, output_dir, downloaded_files, progressJson,
                       baseProgressJson, disk, call, idPaths, runs, calls, fetch, listing,
                       drv, extract>>

NoFetch ==
    [pc |-> "none", source |-> "pokellector", attempt |-> 0, gets |-> 0, sleeps |-> <<>>,
     outcomes |-> <<>>, result |-> "pending"]

NoListing ==
    [pc |-> "none", source |-> "pokellector", page |-> 1, has_more |-> TRUE,
     cards |-> <<>>, list_fetches |-> 0, pages_done |-> 0, every_next |-> TRUE,
     result |-> <<>>]

\* Before the first run: no image file, no progress.json of PokemonCardScraper
\* (only the program writes it); ./progress.json is never written by the
\* program, so whatever it holds was put there from outside.
Init ==
    /\ phase = "idle"
    /\ source \in Sources /\ language = "en" /\ output_dir = "pokemon_cards"
    /\ downloaded_files = {}
    /\ progressJson = AbsentFile
    /\ baseProgressJson \in {AbsentFile, [state |-> "valid", ids |-> Ids]}
    /\ disk = <<>>
    /\ call = NoCall
    /\ idPaths = {}
    /\ runs = 0 /\ calls = 0
    /\ zipped = NoZip
    /\ fetch = NoFetch
    /\ listing = NoListing
    /\ drv = NoMain
    /\ extract = NoExtract

Next ==
    \/ \E lang \in Languages, dir \in OutputDirs : NewRun(lang, dir)
    \/ \E card \in PokellectorCards : PokellectorDownloadBegin(card)
    \/ \E o \in AttemptOutcomes, s \in SaveOutcomes : PokellectorAttempt(o, s)
    \/ \E card \in TCGCards, o \in AttemptOutcomes : TCGDownloadImage(card, o)
    \/ \E zipOk \in BOOLEAN : CreateZipArchive(zipOk)
    \/ \E s \in SaveOutcomes : ExitRun(s)

Spec == Init /\ [][Next]_vars

----------------------------------------------------------------------------
(* get_soup: the fetch client of the two adapters. *)

MaxRetries == 3
InitialDelay == 1
MaxBackoff == 60

RetryableStatuses == {429, 500, 502, 503, 504, 522, 524}

\* Statuses raise_for_status raises for; a sample with both sides of the list.
HttpErrorStatuses == RetryableStatuses \cup {403, 404, 501}

\* What one session.get + raise_for_status + BeautifulSoup(...) can do: return
\* a document, or raise.  The kind is the Python class of what is raised.
FetchOutcomes ==
    [kind : {"ok", "Timeout", "ConnectionError", "ChunkedEncodingError", "RetryError",
             "RequestException", "Exception", "KeyboardInterrupt"},
     status : {0}]
      \cup [kind : {"HTTPError"}, status : HttpErrorStatuses]

IsTimeout(e) == e.kind = "Timeout"

\* isinstance(e, requests.exceptions.RequestException)
IsRequestException(e) ==
    e.kind \in {"Timeout", "ConnectionError", "ChunkedEncodingError", "RetryError",
                "HTTPError", "RequestException"}

\* isinstance(e, Exception); KeyboardInterrupt is a BaseException only
IsException(e) == IsRequestException(e) \/ e.kind = "Exception"

C8_mutant_is_retryable_error(e) ==
    \/ e.kind \in {"Timeout", "ConnectionError", "ChunkedEncodingError", "RetryError"}
    \/ e.kind = "HTTPError"

\* PokemonCardScraper._is_retryable_error
is_retryable_error(e) ==
    \/ e.kind \in {"Timeout", "ConnectionError", "ChunkedEncodingError", "RetryError"}
    \/ e.kind = "HTTPError" /\ e.status \in RetryableStatuses

C9_mutant_ExceptClause(e) ==
    IF IsTimeout(e) THEN "Timeout"
    ELSE IF IsRequestException(e) THEN "RequestException"
    ELSE "propagate"

\* The except clauses of PokemonCardScraper.get_soup, in their order: the one
\* that catches e, or "propagate" when none does.
ExceptClause(e) ==
    IF IsTimeout(e) THEN "Timeout"
    ELSE IF IsRequestException(e) THEN "RequestException"
    ELSE IF IsException(e) THEN "Exception"
    ELSE "propagate"

\* The except clause of BaseScraper.get_soup.
BaseExceptClause(e) == IF IsException(e) THEN "Exception" ELSE "propagate"

Min(a, b) == IF a < b THEN a ELSE b

\* Lines 186 and 196: the backoff before the next attempt.
retry_after(attempt) == Min(InitialDelay * (2 ^ attempt), MaxBackoff)

\* Lines 169-172: get_soup is entered; the loop starts with attempt 0.
GetSoupBegin ==
    /\ fetch.pc \in {"none", "returned"}
    /\ fetch' = [NoFetch EXCEPT !.pc = "running", !.source = "pokellector"]
    /\ UNCHANGED <<dlVars, listing, drv, extract>>

FetchReturns(f, result) == [f EXCEPT !.pc = "returned", !.result = result]

\* The for loop goes on to attempt + 1, or is exhausted and line 210 is reached.
FetchNextAttempt(f) ==
    IF f.attempt < MaxRetries THEN [f EXCEPT !.attempt = @ + 1]
    ELSE FetchReturns(f, "None")

FetchSleep(f) == [f EXCEPT !.sleeps = Append(@, retry_after(f.attempt))]

\* Lines 172-211: one pass of the loop of PokemonCardScraper.get_soup.
GetSoupAttempt(o) ==
    LET f == [fetch EXCEPT !.gets = @ + 1, !.outcomes = Append(@, o)]
        clause == ExceptClause(o)
    IN  /\ fetch.pc = "running" /\ fetch.source = "pokellector"
        /\ fetch' =
              CASE o.kind = "ok" -> FetchReturns(f, "soup")
                [] o.kind /= "ok" /\ clause = "Timeout" ->
                      IF f.attempt < MaxRetries THEN FetchNextAttempt(FetchSleep(f))
                      ELSE FetchNextAttempt(f)
                [] o.kind /= "ok" /\ clause = "RequestException" ->
                      IF f.attempt < MaxRetries /\ is_retryable_error(o)
                      THEN FetchNextAttempt(FetchSleep(f))
                      ELSE FetchReturns(f, "None")
                [] o.kind /= "ok" /\ clause = "Exception" -> FetchReturns(f, "None")
                [] o.kind /= "ok" /\ clause = "propagate" -> FetchReturns(f, "raised")
        /\ UNCHANGED <<dlVars, listing, drv, extract>>

\* Lines 67-75: BaseScraper.get_soup, which TCGCollectorScraper inherits.
BaseGetSoup(o) ==
    LET f == [NoFetch EXCEPT !.source = "tcgcollector", !.gets = 1, !.outcomes = <<o>>]
    IN  /\ fetch.pc \in {"none", "returned"}
        /\ fetch' =
              CASE o.kind = "ok" -> FetchReturns(f, "soup")
                [] o.kind /= "ok" /\ BaseExceptClause(o) = "Exception" ->
                      FetchReturns(f, "None")
                [] o.kind /= "ok" /\ BaseExceptClause(o) = "propagate" ->
                      FetchReturns(f, "raised")
        /\ UNCHANGED <<dlVars, listing, drv, extract>>

FetchNext ==
    \/ GetSoupBegin
    \/ \E o \in FetchOutcomes : GetSoupAttempt(o)
    \/ \E o \in FetchOutcomes : BaseGetSoup(o)

\* The download manager is at rest while get_soup calls are followed.
FetchInit == Init /\ source = "pokellector" /\ baseProgressJson = AbsentFile

FetchSpec == FetchInit /\ [][FetchNext]_vars

----------------------------------------------------------------------------
(* get_cards_from_set: the list pages of one set.  A card record is followed *)
(* by its card_url; what is on a page is an input of the step that reads it. *)

PokellectorPageCap == 20
TCGMaxPages == 50

BaseUrl(src) ==
    IF src = "pokellector" THEN "https://www.pokellector.com"
    ELSE "https://www.tcgcollector.com"

SetPath == "/Base-Set-Expansion"

SetUrl(src) == BaseUrl(src) \o SetPath

\* Lines 288-292: the candidate list URLs, in the order they are tried.
ListUrlSuffixes == <<"/cards", "/all", "">>

\* The hrefs of the card links of the site: site-relative paths.
CardHrefs == {SetPath \o "/Pikachu-Card-" \o Str(IntToStr(i)) : i \in 1..NumCards}

\* urljoin(base_url, href) for a site-relative path
UrlJoin(base, href) == base \o href

\* An item of a list page: the href of its link ("" when it has none) and
\* whether a record can be extracted for it (from the container, or from the
\* card page when that is fetched).
Items == [href : CardHrefs \cup {""}, yields : BOOLEAN]

ItemLists == UNION {[1..n -> Items] : n \in 0..MaxItems}

Range(f) == {f[i] : i \in DOMAIN f}

\* Lines 353-411: the items of one page, in order; an item without link, one
\* whose card_url is already in cards, and one that yields no record are
\* skipped.
RECURSIVE PokellectorCollect(_, _)
PokellectorCollect(cards, items) ==
    IF items = <<>> THEN cards
    ELSE LET it == Head(items)
             card_url == UrlJoin(BaseUrl("pokellector"), it.href)
         IN  PokellectorCollect(
                 IF it.href /= "" /\ card_url \notin Range(cards) /\ it.yields
                 THEN Append(cards, card_url) ELSE cards,
                 Tail(items))

\* Lines 1066-1123: every container with an image and a name is appended; its
\* card_url is that of the parent link, or the set's URL.
RECURSIVE TCGCollect(_, _)
TCGCollect(cards, items) ==
    IF items = <<>> THEN cards
    ELSE LET it == Head(items)
             card_url == IF it.href /= "" THEN UrlJoin(BaseUrl("tcgcollector"), it.href)
                         ELSE SetUrl("tcgcollector")
         IN  TCGCollect(IF it.yields THEN Append(cards, card_url) ELSE cards, Tail(items))

ListingReturns(l, result) == [l EXCEPT !.pc = "returned", !.result = result]

C10_mutant_LoopContinues(page, has_more) == has_more /\ page <= PokellectorPageCap + 1

\* Line 320: the while condition of PokemonCardScraper.get_cards_from_set.
PokellectorLoopContinues(page, has_more) == has_more /\ page <= PokellectorPageCap

\* Line 1027: the while condition of TCGCollectorScraper.get_cards_from_set.
TCGLoopContinues(page) == page <= TCGMaxPages

\* The while condition is evaluated: the loop body is entered, or line 423 returns.
PokellectorLoopTest(l) ==
    IF PokellectorLoopContinues(l.page, l.has_more) THEN [l EXCEPT !.pc = "loop"]
    ELSE ListingReturns(l, l.cards)

\* Lines 283-318: the candidate URLs are fetched until one parses (firstOk is
\* its place in the list, 0 when none does); a page that is itself a card
\* detail page is returned as one record.
PokellectorListBegin(firstOk, single) ==
    LET tried == IF firstOk = 0 THEN Len(ListUrlSuffixes) ELSE firstOk
        l == [NoListing EXCEPT !.source = "pokellector", !.list_fetches = tried]
    IN  /\ listing.pc \in {"none", "returned"}
        /\ listing' =
              IF firstOk = 0 THEN ListingReturns(l, <<>>)
              ELSE IF single
              THEN LET url == SetUrl("pokellector") \o ListUrlSuffixes[firstOk]
                   IN  ListingReturns([l EXCEPT !.cards = <<url>>], <<url>>)
              ELSE PokellectorLoopTest(l)
        /\ UNCHANGED <<dlVars, fetch, drv, extract>>

\* Lines 320-420: one pass of the loop.  pageFetch says how the fetch of a
\* page after the first went: by "?page=", by "/page/" after that failed, or
\* not at all.
PokellectorListPage(pageFetch, items, hasNext) ==
    LET fetches == IF listing.page = 1 THEN 0 ELSE IF pageFetch = "query" THEN 1 ELSE 2
        l == [listing EXCEPT !.list_fetches = @ + fetches]
    IN  /\ listing.pc = "loop" /\ listing.source = "pokellector"
        /\ listing.page = 1 => pageFetch = "query"
        /\ listing' =
              IF listing.page > 1 /\ pageFetch = "fail" THEN ListingReturns(l, l.cards)
              ELSE PokellectorLoopTest(
                       [l EXCEPT !.cards = PokellectorCollect(@, items),
                                 !.pages_done = @ + 1,
                                 !.every_next = @ /\ hasNext,
                                 !.has_more = hasNext,
                                 !.page = IF hasNext THEN @ + 1 ELSE @])
        /\ UNCHANGED <<dlVars, fetch, drv, extract>>

TCGLoopTest(l) ==
    IF TCGLoopContinues(l.page) THEN [l EXCEPT !.pc = "loop"]
    ELSE ListingReturns(l, l.cards)

\* Lines 1018-1027: TCGCollectorScraper.get_cards_from_set is entered.
TCGListBegin ==
    /\ listing.pc \in {"none", "returned"}
    /\ listing' = TCGLoopTest([NoListing EXCEPT !.source = "tcgcollector"])
    /\ UNCHANGED <<dlVars, fetch, drv, extract>>

\* Lines 1027-1132: one pass of the loop.
TCGListPage(pageOk, items, hasNext) ==
    LET l == [listing EXCEPT !.list_fetches = @ + 1]
    IN  /\ listing.pc = "loop" /\ listing.source = "tcgcollector"
        /\ Len(TCGCollect(listing.cards, items)) <= MaxListed
        /\ listing' =
              IF ~pageOk THEN ListingReturns(l, l.cards)
              ELSE LET m == [l EXCEPT !.pages_done = @ + 1, !.every_next = @ /\ hasNext]
                   IN  IF items = <<>> THEN ListingReturns(m, m.cards)
                       ELSE LET n == [m EXCEPT !.cards = TCGCollect(@, items)]
                            IN  IF ~hasNext THEN ListingReturns(n, n.cards)
                                ELSE TCGLoopTest([n EXCEPT !.page = @ + 1])
        /\ UNCHANGED <<dlVars, fetch, drv, extract>>

PageNext ==
    \/ \E firstOk \in 0..Len(ListUrlSuffixes), single \in BOOLEAN :
          PokellectorListBegin(firstOk, single)
    \/ \E pageFetch \in {"query", "path", "fail"}, items \in ItemLists, hasNext \in BOOLEAN :
          PokellectorListPage(pageFetch, items, hasNext)
    \/ TCGListBegin
    \/ \E pageOk \in BOOLEAN, items \in ItemLists, hasNext \in BOOLEAN :
          TCGListPage(pageOk, items, hasNext)

\* The download manager and the fetch client are at rest while
\* get_cards_from_set calls are followed.
PageInit == Init /\ source = "pokellector" /\ baseProgressJson = AbsentFile

PageSpec == PageInit /\ [][PageNext]_vars

----------------------------------------------------------------------------
(* get_cards_from_set, the first list page item by item.  PageSpec follows  *)
(* a call from page to page; ScanSpec follows one call from its first fetch *)
(* to the end of the first page: which URLs it fetched, what it made of the *)
(* page, and each container or card link in turn.  Under ScanSpec listing   *)
(* holds the record ScanState builds.                                       *)

\* A container or card link of a list page: the href of its link ("" when a
\* container has none) and how the extraction for it ends: a record from the
\* container ("container"), a record from the card's page ("page"), the
\* card's page is not fetched ("nofetch"), no record because no number can be
\* recovered ("null"), or an exception ("error").
ScanItems ==
    [href : CardHrefs \cup {""}, outcome : {"container", "page", "nofetch", "null", "error"}]

\* A parsed list page: whether _extract_card_details_from_page makes a
\* record of the page itself, its containers (lines 336 and 1058) or, when it
\* has none, its card links (lines 340-350), and whether it has a next-page
\* link.  Nothing is read of a container without link; a card link has an
\* href and no container; the TCG adapter fetches no card page.
ListPages(src) ==
    LET lists == UNION {[1..n -> ScanItems] : n \in 0..MaxItems}
        Fits(kind, it) ==
            /\ it.href = "" => it.outcome = "null" /\ kind = "containers"
            /\ kind = "anchors" => it.outcome /= "container"
            /\ src = "tcgcollector" => it.outcome \in {"container", "null", "error"}
    IN  {p \in [single : BOOLEAN, kind : {"containers", "anchors"}, items : lists,
                next : BOOLEAN] :
            /\ p.kind = "containers" => p.items /= <<>> \/ src = "tcgcollector"
            /\ src = "tcgcollector" => p.kind = "containers" /\ ~p.single
            /\ \A i \in DOMAIN p.items : Fits(p.kind, p.items[i])}

\* The call after pc, with the list-page URLs it fetched so far, the page it
\* works on, what single-card extraction made of it, the items still to be
\* read and those read, and the records collected.
ScanState(src, pc, tried, page, single, result) ==
    [pc |-> pc, source |-> src, tried |-> tried, page |-> page, single |-> single,
     items |-> IF pc = "scan" THEN page.items ELSE <<>>, done |-> <<>>,
     cards |-> result, result |-> result]

\* The page of a call that has fetched none.
NoPage == [single |-> FALSE, kind |-> "anchors", items |-> <<>>, next |-> FALSE]

C21_mutant_ScanOne(src, cards, it) ==
    IF it.outcome = "error" THEN cards
    ELSE Append(cards, UrlJoin(BaseUrl(src), it.href))

\* Lines 353-411 and 1066-1123: the records after one item is read.  The
\* Pokellector adapter skips a container without link and a card_url it has
\* already; a record is appended when extraction gave one.
ScanOne(src, cards, it) ==
    IF src = "pokellector"
    THEN LET card_url == UrlJoin(BaseUrl(src), it.href)
         IN  IF it.href /= "" /\ card_url \notin Range(cards)
                              /\ it.outcome \in {"container", "page"}
             THEN Append(cards, card_url) ELSE cards
    ELSE IF it.outcome = "container"
         THEN Append(cards, IF it.href /= "" THEN UrlJoin(BaseUrl(src), it.href)
                            ELSE SetUrl(src))
         ELSE cards

\* Lines 287-308: one get_soup call of the loop over the candidate URLs.  The
\* first page that parses is the list page; after the last candidate failed
\* the call returns no card.
TryCandidate(ok, page) ==
    LET k == IF listing.pc = "none" THEN 1 ELSE Len(listing.tried) + 1
        tried == (IF listing.pc = "none" THEN <<>> ELSE listing.tried)
                     \o <<SetUrl("pokellector") \o ListUrlSuffixes[k]>>
    IN  /\ listing.pc \in {"none", "candidates"}
        /\ listing' =
              IF ok THEN ScanState("pokellector", "single", tried, page, "untried", <<>>)
              ELSE IF k = Len(ListUrlSuffixes)
              THEN ScanState("pokellector", "returned", tried, NoPage, "untried", <<>>)
              ELSE ScanState("pokellector", "candidates", tried, NoPage, "untried", <<>>)
        /\ UNCHANGED <<dlVars, fetch, drv, extract>>

C25_mutant_SinglePage ==
    /\ listing.pc = "single"
    /\ listing' = ScanState("pokellector", "scan", listing.tried, listing.page,
                            IF listing.page.single THEN "valid" ELSE "null", <<>>)
    /\ UNCHANGED <<dlVars, fetch, drv, extract>>

\* Lines 310-318: the list page is first read as a card detail page; a
\* record ends the call, otherwise the loop starts on the page at hand.
SinglePage ==
    LET l == listing
    IN  /\ l.pc = "single"
        /\ listing' =
              IF l.page.single
              THEN ScanState("pokellector", "returned", l.tried, l.page, "valid",
                             <<l.tried[Len(l.tried)]>>)
              ELSE ScanState("pokellector", "scan", l.tried, l.page, "null", <<>>)
        /\ UNCHANGED <<dlVars, fetch, drv, extract>>

\* Lines 1027-1064: the TCG adapter fetches page 1; a failed fetch and a
\* page without containers end the loop.
TCGFirstPage(pageOk, page) ==
    LET url == SetUrl("tcgcollector")
                   \o "?releaseDateOrder=newToOld&displayAs=images&page=1&pageSize=100"
    IN  /\ listing.pc = "none"
        /\ listing' =
              IF ~pageOk
              THEN ScanState("tcgcollector", "returned", <<url>>, NoPage, "untried", <<>>)
              ELSE IF page.items = <<>>
              THEN ScanState("tcgcollector", "returned", <<url>>, page, "untried", <<>>)
              ELSE ScanState("tcgcollector", "scan", <<url>>, page, "untried", <<>>)
        /\ UNCHANGED <<dlVars, fetch, drv, extract>>

\* Lines 353-411 and 1066-1123: one pass of the loop over the containers or
\* the card links.
ScanItem ==
    /\ listing.pc = "scan" /\ listing.items /= <<>>
    /\ listing' = [listing EXCEPT !.cards = ScanOne(listing.source, @, Head(listing.items)),
                                  !.done = Append(@, Head(listing.items)),
                                  !.items = Tail(@)]
    /\ UNCHANGED <<dlVars, fetch, drv, extract>>

\* Lines 414-423 and 1126-1135: after the last item the next-page link
\* decides: without one the call returns its records, with one it goes on to
\* fetch page 2 (pc "paging"; PageSpec follows the later pages).
ScanEnd ==
    /\ listing.pc = "scan" /\ listing.items = <<>>
    /\ listing' = IF listing.page.next THEN [listing EXCEPT !.pc = "paging"]
                  ELSE [listing EXCEPT !.pc = "returned", !.result = listing.cards]
    /\ UNCHANGED <<dlVars, fetch, drv, extract>>

ScanNext ==
    \/ /\ listing.pc \in {"none", "candidates"}
       /\ \E ok \in BOOLEAN, page \in ListPages("pokellector") : TryCandidate(ok, page)
    \/ SinglePage
    \/ /\ listing.pc = "none"
       /\ \E pageOk \in BOOLEAN, page \in ListPages("tcgcollector") :
              TCGFirstPage(pageOk, page)
    \/ ScanItem
    \/ ScanEnd

ScanSpec == PageInit /\ [][ScanNext]_vars

----------------------------------------------------------------------------
(* main: the driver.  It builds the scraper, discovers the sets, asks which *)
(* to download, and for each selected set extracts the cards and downloads  *)
(* them; then it archives and reports.  Here a call of get_sets,            *)
(* get_cards_from_set, download_image or create_zip_archive is one step     *)
(* whose result is an input; what main does with the result is modelled.    *)

\* Set i of the list get_sets returned.
SetCodeOf(i) == "set" \o Str(IntToStr(i))

\* Card j of set i, as extraction hands it to download_image.
CardOf(i, j) ==
    [set_code |-> SetCodeOf(i), number |-> ZFill(IntToStr(j), 3), name |-> CardName,
     image_url |-> ImageUrl]

\* Lines 857-873: the answers the selection loop accepts: 'all', or indices in
\* range, in the order and with the repetitions the user typed.
Selections(n) ==
    UNION {[1..k -> 1..n] : k \in 1..n}

\* Lines 816-842: main starts; prompt_user_selection gives None (the user chose
\* Exit) or a selection, with which the scraper is built.  A behaviour follows
\* one run of main; what earlier runs left is in the progress files.
MainBegin(lang, quit) ==
    /\ drv.pc = "none"
    /\ IF quit
       THEN /\ drv' = [NoMain EXCEPT !.pc = "finally", !.ending = "normal"]
            /\ UNCHANGED <<language, downloaded_files>>
       ELSE /\ drv' = [NoMain EXCEPT !.pc = "get_sets", !.constructed = TRUE]
            /\ language' = lang
            /\ downloaded_files' =
                  IF source = "pokellector" THEN load_progress(progressJson)
                  ELSE load_progress(baseProgressJson)
    /\ UNCHANGED <<phase, source, output_dir, progressJson, baseProgressJson, disk, call,
                   idPaths, runs, calls, zipped, fetch, listing, extract>>

\* Lines 846-855: get_sets; an empty list ends main.
MainGetSets(n) ==
    /\ drv.pc = "get_sets"
    /\ drv' = IF n = 0
              THEN [drv EXCEPT !.pc = "finally", !.ending = "normal",
                               !.summary = {"no_sets_found"}]
              ELSE [drv EXCEPT !.pc = "select", !.nsets = n]
    /\ UNCHANGED <<dlVars, fetch, listing, extract>>

\* Lines 857-877: the selection is read; input() can fail (EOFError).
MainSelect(sel, inputOk) ==
    /\ drv.pc = "select"
    /\ sel \in Selections(drv.nsets)
    /\ drv' = IF inputOk
              THEN [drv EXCEPT !.pc = "set_loop", !.selected = sel]
              ELSE [drv EXCEPT !.pc = "finally", !.ending = "exception",
                               !.summary = {"unexpected_error"}]
    /\ UNCHANGED <<dlVars, fetch, listing, extract>>

\* Lines 879 and 915: the next selected set, or the end of the loop.
AfterSet(d) ==
    IF d.idx < Len(d.selected) THEN [d EXCEPT !.pc = "set_loop", !.idx = @ + 1]
    ELSE [d EXCEPT !.pc = "archive"]

C12_mutant_SetLevelHandler(o) == "propagate"

\* Lines 911-913: what the except clause of the loop body does with what was
\* raised inside it.
SetLevelHandler(o) == IF o.kind = "Exception" THEN "continue" ELSE "propagate"

\* The lengths of the card lists get_cards_from_set gives main here: no card,
\* one card, two cards.
CardCounts == {0, 1, 2}

\* What get_cards_from_set can give main: a list of n cards, or something raised.
ExtractOutcomes ==
    [kind : {"cards"}, n : CardCounts] \cup [kind : {"Exception"}, n : {0}]

C29_mutant_CardsSeen(total_cards, n) == total_cards

\* Line 891: total_cards += len(cards)
CardsSeen(total_cards, n) == total_cards + n

\* Lines 886-895: get_cards_from_set for the next selected set.  An empty
\* result skips the set; else the cards are counted, success_count starts at
\* 0 and no card of the set has been passed to download_image yet (passed
\* counts the calls per card).
MainExtract(o) ==
    LET d == [drv EXCEPT !.extracted = Append(@, drv.selected[drv.idx])]
    IN  /\ drv.pc = "set_loop"
        /\ o \in ExtractOutcomes
        /\ drv' =
              IF o.kind = "Exception"
              THEN IF SetLevelHandler(o) = "continue"
                   THEN AfterSet([d EXCEPT !.errors = @ \cup {drv.idx}])
                   ELSE [d EXCEPT !.errors = @ \cup {drv.idx}, !.pc = "finally",
                                  !.ending = "exception",
                                  !.summary = {"unexpected_error"}]
              ELSE IF o.n = 0 THEN AfterSet(d)
              ELSE [d EXCEPT !.pc = "download", !.ncards = o.n, !.card = 1,
                             !.total_cards = CardsSeen(@, o.n),
                             !.success_count = 0, !.passed = [c \in 1..o.n |-> 0]]
        /\ UNCHANGED <<dlVars, fetch, listing, extract>>

\* What a download_image call can give main.
DownloadResults == {"downloaded", "skipped", "False", "Exception"}

\* Lines 897-909: download_image for the next card of the set; an Exception it
\* raises is caught per card.  PokemonCardScraper adds the identity of a
\* downloaded card to the Progress Set and saves it.
MainDownload(r, saveOutcome) ==
    LET id == DownloadId(CardOf(drv.selected[drv.idx], drv.card))
        counted == [drv EXCEPT !.successful_downloads =
                                   IF r \in {"downloaded", "skipped"} THEN @ + 1 ELSE @,
                               !.success_count =
                                   IF r \in {"downloaded", "skipped"} THEN @ + 1 ELSE @,
                               !.passed[drv.card] = @ + 1]
    IN  /\ drv.pc = "download"
        /\ r \in DownloadResults
        /\ r = "downloaded" /\ source = "pokellector" => id \notin downloaded_files
        /\ IF r = "downloaded" /\ source = "pokellector"
           THEN /\ downloaded_files' = downloaded_files \cup {id}
                /\ progressJson' =
                      save_progress(progressJson, downloaded_files', saveOutcome)
           ELSE UNCHANGED <<downloaded_files, progressJson>>
        /\ drv' = IF drv.card < drv.ncards THEN [counted EXCEPT !.card = @ + 1]
                  ELSE AfterSet(counted)
        /\ UNCHANGED <<phase, source, language, output_dir, baseProgressJson, disk, call,
                       idPaths, runs, calls, zipped, fetch, listing, extract>>

\* Lines 915-924: the archive and the final report.  create_zip_archive gives
\* the path of the archive, or "" after logging why there is none.
MainArchive(zipOk) ==
    /\ drv.pc = "archive"
    /\ drv' =
          [drv EXCEPT !.pc = "finally", !.ending = "normal",
                      !.summary =
                          IF drv.successful_downloads > 0
                          THEN IF zipOk
                               THEN {"cards_downloaded", "output_dir", "archive_path"}
                               ELSE {"archive_failure_reason"}
                          ELSE {"no_cards_downloaded"}]
    /\ UNCHANGED <<dlVars, fetch, listing, extract>>

\* Lines 926-927: Ctrl-C anywhere between the construction of the scraper and
\* the end of the try block.
MainInterrupt ==
    /\ drv.pc \in {"get_sets", "select", "set_loop", "download", "archive"}
    /\ drv' = [drv EXCEPT !.pc = "finally", !.ending = "interrupt",
                          !.summary = {"cancelled"}]
    /\ UNCHANGED <<dlVars, fetch, listing, extract>>

\* Line 932: hasattr(scraper, 'save_progress').  BaseScraper, and with it
\* TCGCollectorScraper, has _save_progress only.
HasSaveProgress(src) == src = "pokellector"

\* Lines 930-933: the finally clause.
MainFinally(saveOutcome) ==
    /\ drv.pc = "finally"
    /\ IF drv.constructed /\ HasSaveProgress(source)
       THEN /\ progressJson' = save_progress(progressJson, downloaded_files, saveOutcome)
            /\ drv' = [drv EXCEPT !.pc = "exited", !.flushes = @ + 1,
                                  !.flushed_ok = saveOutcome = "ok"]
       ELSE /\ drv' = [drv EXCEPT !.pc = "exited"]
            /\ UNCHANGED progressJson
    /\ UNCHANGED <<phase, source, language, output_dir, downloaded_files,
                   baseProgressJson, disk, call, idPaths, runs, calls, zipped, fetch,
                   listing, extract>>

MainNext ==
    \/ \E lang \in Languages, quit \in BOOLEAN : MainBegin(lang, quit)
    \/ \E n \in 0..MaxSets : MainGetSets(n)
    \/ \E sel \in Selections(MaxSets), inputOk \in BOOLEAN : MainSelect(sel, inputOk)
    \/ \E o \in ExtractOutcomes : MainExtract(o)
    \/ \E r \in DownloadResults, s \in SaveOutcomes : MainDownload(r, s)
    \/ \E zipOk \in BOOLEAN : MainArchive(zipOk)
    \/ MainInterrupt
    \/ \E s \in SaveOutcomes : MainFinally(s)

MainSpec == Init /\ [][MainNext]_vars

----------------------------------------------------------------------------
(* Texts of pages and URLs: sequences of one-character strings, and the     *)
(* str and re operations extraction applies to them.                        *)

StartsWith(s, p) == Len(s) >= Len(p) /\ SubSeq(s, 1, Len(p)) = p

EndsWith(s, p) == Len(s) >= Len(p) /\ SubSeq(s, Len(s) - Len(p) + 1, Len(s)) = p

\* The least element of a non-empty set of integers.
Least(S) == CHOOSE i \in S : \A j \in S : i <= j

\* s[i..] to the end
From(s, i) == SubSeq(s, i, Len(s))

\* s.split(c)[0]
BeforeFirst(s, c) ==
    LET I == {i \in 1..Len(s) : s[i] = c}
    IN  IF I = {} THEN s ELSE SubSeq(s, 1, Least(I) - 1)

\* s.rstrip('/')
RECURSIVE RStripSlash(_)
RStripSlash(s) ==
    IF s /= <<>> /\ s[Len(s)] = "/" THEN RStripSlash(SubSeq(s, 1, Len(s) - 1)) ELSE s

\* url.rstrip('/').split('/')[-1]
LastPart(url) ==
    LET s == RStripSlash(url)
        I == {i \in 1..Len(s) : s[i] = "/"}
    IN  IF I = {} THEN s ELSE From(s, (CHOOSE i \in I : \A j \in I : j <= i) + 1)

\* The maximal run of digits of s that starts at i (empty if s[i] is no digit).
RECURSIVE DigitRunAt(_, _)
DigitRunAt(s, i) ==
    IF i <= Len(s) /\ IsDigit(s[i]) THEN <<s[i]>> \o DigitRunAt(s, i + 1) ELSE <<>>

\* group(1) of re.search(r'(\d+)', s); <<>> when there is no match
FirstDigitRun(s) ==
    LET I == {i \in 1..Len(s) : IsDigit(s[i])}
    IN  IF I = {} THEN <<>> ELSE DigitRunAt(s, Least(I))

\* The number of blanks s starts with.
RECURSIVE LeadingBlanks(_)
LeadingBlanks(s) == IF s /= <<>> /\ Head(s) = " " THEN 1 + LeadingBlanks(Tail(s)) ELSE 0

LowerLetters ==
    <<"a", "b", "c", "d", "e", "f", "g", "h", "i", "j", "k", "l", "m", "n", "o", "p", "q",
      "r", "s", "t", "u", "v", "w", "x", "y", "z">>

UpperLetters ==
    <<"A", "B", "C", "D", "E", "F", "G", "H", "I", "J", "K", "L", "M", "N", "O", "P", "Q",
      "R", "S", "T", "U", "V", "W", "X", "Y", "Z">>

IsLetter(c) == \E i \in 1..26 : c = LowerLetters[i] \/ c = UpperLetters[i]

ToLower(c) ==
    IF \E i \in 1..26 : c = UpperLetters[i]
    THEN LowerLetters[CHOOSE i \in 1..26 : c = UpperLetters[i]] ELSE c

ToUpper(c) ==
    IF \E i \in 1..26 : c = LowerLetters[i]
    THEN UpperLetters[CHOOSE i \in 1..26 : c = LowerLetters[i]] ELSE c

\* s.title(): a letter after a letter is lowered, any other letter is raised
Title(s) ==
    [i \in 1..Len(s) |->
        IF i > 1 /\ IsLetter(s[i - 1]) THEN ToLower(s[i]) ELSE ToUpper(s[i])]

----------------------------------------------------------------------------
(* URLs. *)

BaseUrlText(src) ==
    IF src = "pokellector" THEN <<"h", "t", "t", "p", "s", ":", "/", "/", "w", "w", "w", ".", "p", "o", "k", "e", "l", "l", "e", "c", "t", "o", "r", ".", "c", "o", "m">>
    ELSE <<"h", "t", "t", "p", "s", ":", "/", "/", "w", "w", "w", ".", "t", "c", "g", "c", "o", "l", "l", "e", "c", "t", "o", "r", ".", "c", "o", "m">>

\* A reference that carries its own scheme ("https:", "data:", "ftp:").
HasScheme(ref) ==
    \E i \in 2..Len(ref) :
        /\ ref[i] = ":"
        /\ IsLetter(ref[1])
        /\ \A j \in 1..(i - 1) : ref[j] \in (WordChars \ {"_"}) \cup {"+", ".", "-"}

\* urljoin(self.base_url, ref), for a base_url that is scheme and host: a
\* reference with a scheme stands for itself, "//host/..." takes the scheme of
\* the base, "/path" and "?query" its host as well, and any other reference
\* is a path under the root.  An empty reference gives the base.
UrlJoinText(base, ref) ==
    IF ref = <<>> THEN base
    ELSE IF HasScheme(ref) THEN ref
    ELSE IF StartsWith(ref, <<"/", "/">>) THEN BeforeFirst(base, "/") \o ref
    ELSE IF Head(ref) \in {"/", "?"} THEN base \o ref
    ELSE base \o <<"/">> \o ref

----------------------------------------------------------------------------
(* PokemonCardScraper._extract_card_details_from_page. *)

\* r'Card[-_](\d+)$' with re.IGNORECASE
CardSuffixPattern(s) ==
    LET I == {i \in 1..(Len(s) - 5) :
                 /\ [k \in 1..4 |-> ToLower(s[i + k - 1])] = <<"c", "a", "r", "d">>
                 /\ s[i + 4] \in {"-", "_"}
                 /\ IsDecimal(From(s, i + 5))}
    IN  IF I = {} THEN <<>> ELSE From(s, Least(I) + 5)

\* r'[-_](\d+)$'
SeparatorSuffixPattern(s) ==
    LET I == {i \in 1..(Len(s) - 1) : s[i] \in {"-", "_"} /\ IsDecimal(From(s, i + 1))}
    IN  IF I = {} THEN <<>> ELSE From(s, Least(I) + 1)

\* r'#(\d+)'
HashPattern(s) ==
    LET I == {i \in 1..(Len(s) - 1) : s[i] = "#" /\ IsDigit(s[i + 1])}
    IN  IF I = {} THEN <<>> ELSE DigitRunAt(s, Least(I) + 1)

\* r'\b(\d{1,3})\b': a run of one to three digits with no word character on
\* either side
ShortRunPattern(s) ==
    LET I == {i \in 1..Len(s) :
                 /\ IsDigit(s[i])
                 /\ i = 1 \/ s[i - 1] \notin WordChars
                 /\ LET n == Len(DigitRunAt(s, i))
                    IN  n <= 3 /\ (i + n > Len(s) \/ s[i + n] \notin WordChars)}
    IN  IF I = {} THEN <<>> ELSE DigitRunAt(s, Least(I))

\* Lines 527-533: group(1) of each pattern on s, <<>> without a match.  In
\* r'(?:No\.?|#)?\s*(\d+)' the prefix is optional: the match is at the first
\* digit of s and the group is the run that starts there.
UrlPatternGroup(p, s) ==
    CASE p = "card_suffix" -> CardSuffixPattern(s)
      [] p = "separator_suffix" -> SeparatorSuffixPattern(s)
      [] p = "hash" -> HashPattern(s)
      [] p = "loose" -> FirstDigitRun(s)
      [] p = "short_run" -> ShortRunPattern(s)

\* Lines 535-540: the group of the first pattern that matches the last part of
\* the URL, <<>> (None) when none does.
RECURSIVE FirstPatternGroup(_, _)
FirstPatternGroup(patterns, s) ==
    IF patterns = <<>> THEN <<>>
    ELSE IF UrlPatternGroup(Head(patterns), s) /= <<>>
         THEN UrlPatternGroup(Head(patterns), s)
         ELSE FirstPatternGroup(Tail(patterns), s)

C16_mutant_UrlNumber(last_part) == FirstDigitRun(last_part)

\* Lines 527-540: the patterns in the order they are tried.
UrlNumber(last_part) ==
    FirstPatternGroup(<<"card_suffix", "separator_suffix", "hash", "loose", "short_run">>,
                      last_part)

\* Lines 584-603: an element the number selectors found: its text is searched
\* with r'(?:#|No\.?\s*)?(\d+)(?:\s*/\s*\d+)?', then its data attributes.
ElementNumber(elem) ==
    IF FirstDigitRun(elem.text) /= <<>> THEN FirstDigitRun(elem.text)
    ELSE FirstDigitRun(elem.data)

\* Lines 581-610: the first element, in selector order, that gives a number.
RECURSIVE PageNumber(_)
PageNumber(elems) ==
    IF elems = <<>> THEN <<>>
    ELSE IF ElementNumber(Head(elems)) /= <<>> THEN ElementNumber(Head(elems))
         ELSE PageNumber(Tail(elems))

C26_mutant_RawCardNumber(last_part, elems) ==
    IF PageNumber(elems) /= <<>> THEN PageNumber(elems) ELSE UrlNumber(last_part)

\* Lines 516-611: the number of the URL, else that of the page.
RawCardNumber(last_part, elems) ==
    IF UrlNumber(last_part) /= <<>> THEN UrlNumber(last_part) ELSE PageNumber(elems)

\* re.sub(r'\s*[\[\{].*?[\]\}]', '', s): blanks, an opening bracket or brace,
\* and everything up to the nearest closing bracket or brace
RECURSIVE RemoveBracketed(_)
RemoveBracketed(s) ==
    IF s = <<>> THEN s
    ELSE LET k == LeadingBlanks(s)
             closing == {j \in (k + 2)..Len(s) : s[j] \in {"]", "}"}}
         IN  IF k < Len(s) /\ s[k + 1] \in {"[", "{"} /\ closing /= {}
             THEN RemoveBracketed(From(s, Least(closing) + 1))
             ELSE <<Head(s)>> \o RemoveBracketed(Tail(s))

\* re.sub(r'\s*#\d+.*$', '', s): from the blanks before the first #<digit> on
RemoveHashTail(s) ==
    LET I == {i \in 1..Len(s) :
                 LET k == LeadingBlanks(From(s, i))
                 IN  i + k + 1 <= Len(s) /\ s[i + k] = "#" /\ IsDigit(s[i + k + 1])}
    IN  IF I = {} THEN s ELSE SubSeq(s, 1, Least(I) - 1)

\* Lines 644-648: the text of a name element, cleaned.
CleanName(text) == Strip(RemoveHashTail(RemoveBracketed(Strip(text))))

\* Lines 641-650: the cleaned text of the first name element, in selector
\* order, for which it is not empty; <<>> when there is none.
RECURSIVE PageName(_)
PageName(texts) ==
    IF texts = <<>> THEN <<>>
    ELSE IF CleanName(Head(texts)) /= <<>> THEN CleanName(Head(texts))
         ELSE PageName(Tail(texts))

\* Lines 652-658: without a name from the page, the part of the URL before
\* "-Card-", with blanks for hyphens and in title case, or "Card-<number>".
UrlName(last_part, number) ==
    LET I == {i \in 1..(Len(last_part) - 5) :
                 SubSeq(last_part, i, i + 5) = <<"-", "C", "a", "r", "d", "-">>}
        name_part == IF I = {} THEN last_part ELSE SubSeq(last_part, 1, Least(I) - 1)
    IN  IF name_part /= <<>>
        THEN Title([i \in 1..Len(name_part) |->
                       IF name_part[i] = "-" THEN " " ELSE name_part[i]])
        ELSE <<"C", "a", "r", "d", "-">> \o number

\* Line 684: img_url.endswith(('.jpg', '.jpeg', '.png', '.webp'))
HasImageSuffix(url) ==
    \E x \in {<<".", "j", "p", "g">>, <<".", "j", "p", "e", "g">>,
              <<".", "p", "n", "g">>, <<".", "w", "e", "b", "p">>} : EndsWith(url, x)

\* Lines 681-683: the URL of one img element (src, else data-src, else
\* data-lazy-src: here their first non-empty value, <<>> when there is none),
\* resolved against the base unless it starts with http:// or https://.
ResolvedImage(ref) ==
    IF ref /= <<>> /\ ~StartsWith(ref, <<"h", "t", "t", "p", ":", "/", "/">>)
                  /\ ~StartsWith(ref, <<"h", "t", "t", "p", "s", ":", "/", "/">>)
    THEN UrlJoinText(BaseUrlText("pokellector"), ref)
    ELSE ref

\* Lines 678-685: the img elements the selectors find, in selector order; the
\* loop stops at the first whose URL ends in an image suffix, and img_url
\* keeps the value the last pass gave it.
RECURSIVE ImageLoop(_, _)
ImageLoop(refs, img_url) ==
    IF refs = <<>> THEN img_url
    ELSE LET u == ResolvedImage(Head(refs))
         IN  IF u /= <<>> /\ HasImageSuffix(u) THEN u ELSE ImageLoop(Tail(refs), u)

\* Lines 509-708.  page: the elements the selectors find on the card page.
\* The result is the record, or None.
NoRecord == [none |-> TRUE]

extract_card_details_from_page(page, card_url, set_code) ==
    LET last_part == LastPart(card_url)
        raw == RawCardNumber(last_part, page.numbers)
        number == IntToStr(ParseInt(raw))
        name == IF PageName(page.names) /= <<>> THEN PageName(page.names)
                ELSE UrlName(last_part, number)
        img_url == ImageLoop(page.images, <<>>)
    IN  IF raw = <<>> THEN NoRecord
        ELSE IF img_url = <<>> THEN NoRecord
        ELSE [none |-> FALSE, name |-> name, number |-> ZFill(number, 3),
              image_url |-> BeforeFirst(img_url, "?"), card_url |-> card_url,
              set_code |-> set_code]

----------------------------------------------------------------------------
(* PokemonCardScraper._extract_card_from_container. *)

\* r'(\d+)(?:-\w+)?$': a run of digits at the end of s, or followed by one
\* "-word" that ends s
TailNumberPattern(s) ==
    LET I == {i \in 1..Len(s) :
                 /\ IsDigit(s[i])
                 /\ LET rest == From(s, i + Len(DigitRunAt(s, i)))
                    IN  \/ rest = <<>>
                        \/ /\ Len(rest) >= 2 /\ Head(rest) = "-"
                           /\ \A j \in 2..Len(rest) : rest[j] \in WordChars}
    IN  IF I = {} THEN <<>> ELSE DigitRunAt(s, Least(I))

\* Lines 433-451: the first run of digits of the number element; when it
\* shows none, the last part of the URL if it is a number, else its tail.
ContainerNumber(container, card_url) ==
    LET last_part == LastPart(card_url)
    IN  IF FirstDigitRun(container.number) /= <<>> THEN FirstDigitRun(container.number)
        ELSE IF IsDecimal(last_part) THEN last_part
        ELSE TailNumberPattern(last_part)

\* img.get('data-src') or img.get('src', '')
FirstOf(a, b) == IF a /= <<>> THEN a ELSE b

\* Lines 454-459: no img element gives ""; a URL that does not start with
\* "http" is resolved against the base.
ContainerImage(container) ==
    LET ref == FirstOf(container.img.data_src, container.img.src)
    IN  IF ~container.img.present THEN <<>>
        ELSE IF ref /= <<>> /\ ~StartsWith(ref, <<"h", "t", "t", "p">>)
             THEN UrlJoinText(BaseUrlText("pokellector"), ref)
             ELSE ref

\* Lines 429-430 and 461-465
ContainerName(container, number) ==
    IF Strip(container.name) /= <<>> THEN Strip(container.name)
    ELSE IF container.img.present /\ container.img.alt /= <<>> THEN Strip(container.img.alt)
    ELSE IF number /= <<>> THEN <<"C", "a", "r", "d", "-">> \o number
    ELSE <<"U", "n", "k", "n", "o", "w", "n">>

\* Lines 425-482
extract_card_from_container(container, card_url, set_code) ==
    LET number == ContainerNumber(container, card_url)
    IN  IF number = <<>> THEN NoRecord
        ELSE [none |-> FALSE, name |-> ContainerName(container, number),
              number |-> ZFill(number, 3), image_url |-> ContainerImage(container),
              card_url |-> card_url, set_code |-> set_code]

----------------------------------------------------------------------------
(* TCGCollectorScraper.get_cards_from_set: one container (lines 1066-1123). *)

\* s.strip('#')
RECURSIVE StripHash(_)
StripHash(s) ==
    IF s = <<>> THEN s
    ELSE IF Head(s) = "#" THEN StripHash(Tail(s))
    ELSE IF s[Len(s)] = "#" THEN StripHash(SubSeq(s, 1, Len(s) - 1))
    ELSE s

tcg_card_from_container(container, set_code) ==
    LET ref == FirstOf(container.img.data_src, container.img.src)
        img_url == UrlJoinText(BaseUrlText("tcgcollector"), BeforeFirst(ref, "?"))
        name == FirstOf(Strip(container.img.alt), Strip(container.name))
        number == StripHash(Strip(container.number))
        card_url == IF container.href /= <<>>
                    THEN UrlJoinText(BaseUrlText("tcgcollector"), container.href)
                    ELSE BaseUrlText("tcgcollector")
                         \o <<"/", "s", "e", "t", "s", "/", "1", "/", "b", "a", "s", "e">>
    IN  IF ~container.img.present \/ ref = <<>> THEN NoRecord
        ELSE IF name = <<>> THEN NoRecord
        ELSE [none |-> FALSE, name |-> name,
              number |-> IF number /= <<>> THEN number ELSE <<"0">>,
              image_url |-> img_url, card_url |-> card_url, set_code |-> set_code]

----------------------------------------------------------------------------
(* get_sets of the two adapters: the anchors of the sets page, in order. *)

\* s.replace(p, '')
RECURSIVE RemoveAll(_, _)
RemoveAll(s, p) ==
    IF s = <<>> THEN s
    ELSE IF StartsWith(s, p) THEN RemoveAll(From(s, Len(p) + 1), p)
    ELSE <<Head(s)>> \o RemoveAll(Tail(s), p)

\* Line 266: re.sub(r'(-Expansion)?[^\w-]', '', set_code): every character
\* that is no word character and no hyphen goes, with a "-Expansion" right
\* before it.
RECURSIVE CleanSetCode(_)
CleanSetCode(s) ==
    IF s = <<>> THEN s
    ELSE IF StartsWith(s, <<"-", "E", "x", "p", "a", "n", "s", "i", "o", "n">>) /\ Len(s) > 10 /\ s[11] \notin WordChars \cup {"-"}
         THEN CleanSetCode(From(s, 12))
    ELSE IF Head(s) \notin WordChars \cup {"-"} THEN CleanSetCode(Tail(s))
    ELSE <<Head(s)>> \o CleanSetCode(Tail(s))

\* Lines 247-278: one anchor; the descriptor, or NoRecord when it is skipped.
\* An anchor without href raises KeyError, which is logged.
PokellectorSetOf(a) ==
    LET set_url == UrlJoinText(BaseUrlText("pokellector"), a.href)
        set_name == FirstOf(Strip(RemoveAll(a.title, <<" ", "S", "e", "t">>)), Strip(a.text))
        set_code == LastPart(set_url)
    IN  IF ~a.has_href THEN NoRecord
        ELSE IF set_code = <<>> \/ set_name = <<>> THEN NoRecord
        ELSE [none |-> FALSE, name |-> Strip(set_name), code |-> CleanSetCode(set_code),
              url |-> set_url]

\* Lines 1010-1016: _extract_set_code
extract_set_code(url) ==
    IF \E i \in 1..Len(RStripSlash(url)) : url[i] = "/" THEN LastPart(url) ELSE <<>>

\* Lines 980-1005: one anchor of TCGCollectorScraper.get_sets.
TCGSetOf(a) ==
    LET set_name == FirstOf(Strip(a.title), Strip(a.text))
        set_url == UrlJoinText(BaseUrlText("tcgcollector"), a.href)
        set_code == extract_set_code(set_url)
    IN  IF ~a.has_href THEN NoRecord
        ELSE IF set_name = <<>> \/ set_url = <<>> \/ set_code = <<>> THEN NoRecord
        ELSE [none |-> FALSE, name |-> set_name, code |-> set_code, url |-> set_url]

\* Lines 243-281 and 975-1008: the descriptors of the anchors that are not
\* skipped, in the order of the page.
RECURSIVE get_sets(_, _)
get_sets(src, anchors) ==
    IF anchors = <<>> THEN <<>>
    ELSE LET d == IF src = "pokellector" THEN PokellectorSetOf(Head(anchors))
                  ELSE TCGSetOf(Head(anchors))
         IN  (IF d.none THEN <<>> ELSE <<d>>) \o get_sets(src, Tail(anchors))

----------------------------------------------------------------------------
(* The pages extraction is followed on. *)

\* Card URLs of one set: last parts of the form Name-Card-<N> and of other
\* forms, each with and without a closing slash.
CardUrls ==
    {BaseUrlText("pokellector") \o <<"/", "B", "a", "s", "e", "-", "S", "e", "t", "-", "E", "x", "p", "a", "n", "s", "i", "o", "n", "/">> \o p \o slash :
        p \in {<<"M", "e", "w", "-", "C", "a", "r", "d", "-", "7">>, <<"M", "e", "w", "2", "-", "C", "a", "r", "d", "-", "1", "8">>, <<"M", "e", "w", "2", "-", "C", "a", "r", "d", "-", "0", "0", "7">>, <<"M", "e", "w", "-", "C", "a", "r", "d", "-", "1", "2", "3", "4">>,
     <<"M", "r", "-", "M", "i", "m", "e", "-", "2", "-", "C", "a", "r", "d", "-", "6">>,
               <<"c", "a", "r", "d", "_", "1", "8">>, <<"M", "e", "w", "-", "7">>, <<"M", "e", "w", "2", "5">>, <<"2", "5", "-", "p", "r", "o", "m", "o">>, <<"M", "e", "w">>},
        slash \in {<<>>, <<"/">>}}

\* Card pages: the elements the number selectors find (text and data
\* attribute), the texts of the elements the name selectors find, and the
\* URL attribute of the img elements the image selectors find, each in
\* selector order.
DetailPages ==
    [numbers : {<<>>, <<[text |-> <<"9", "9", "/", "1", "0", "2">>, data |-> <<>>]>>,
     <<[text |-> <<"N", "o">>, data |-> <<"0", "0", "1", "2">>]>>},
     names : {<<>>, <<<<"M", "e", "w", " ", "[", "P", "r", "o", "m", "o", "]", " ", "#", "7">>>>, <<<<" ">>, <<"M", "e", "w">>>>},
     images : {<<>>, <<<<"/", "i", "m", "g", "/", "m", "e", "w", ".", "p", "n", "g">>>>, <<<<"h", "t", "t", "p", "s", ":", "/", "/", "c", "d", "n", ".", "e", "x", "a", "m", "p", "l", "e", "/", "m", "e", "w", ".", "p", "n", "g", "?", "v", "=", "2">>>>,
     <<<<"/", "i", "m", "g", "/", "m", "e", "w", ".", "s", "v", "g">>, <<"h", "t", "t", "p", "s", ":", "/", "/", "c", "d", "n", ".", "e", "x", "a", "m", "p", "l", "e", "/", "m", "e", "w", ".", "j", "p", "g">>>>,
     <<<<"d", "a", "t", "a", ":", "i", "m", "a", "g", "e", "/", "p", "n", "g", ";", "b", "a", "s", "e", "6", "4", ",", "A", "A">>>>, <<<<>>>>,
     <<<<"h", "t", "t", "p", "s", ":", "/", "/", "c", "d", "n", ".", "e", "x", "a", "m", "p", "l", "e", "/", "m", "e", "w", ".", "p", "n", "g", "?", "v", "=", "2">>, <<"/", "i", "m", "g", "/", "b", "a", "c", "k", ".", "j", "p", "g">>>>}]

\* Containers of a Pokellector list page: the texts of the name and number
\* elements (<<>> without one) and the first img element.
PokellectorContainers ==
    [name : {<<>>, <<"M", "e", "w", " ", "[", "P", "r", "o", "m", "o", "]", " ", "#", "7">>}, number : {<<>>, <<"#", "0", "0", "1", "2">>, <<"7", "/", "1", "0", "2">>},
     img : {[present |-> FALSE, data_src |-> <<>>, src |-> <<>>, alt |-> <<>>],
     [present |-> TRUE, data_src |-> <<>>, src |-> <<"/", "i", "m", "g", "/", "m", "e", "w", ".", "p", "n", "g">>, alt |-> <<"M", "e", "w">>],
     [present |-> TRUE, data_src |-> <<"h", "t", "t", "p", "s", ":", "/", "/", "c", "d", "n", ".", "e", "x", "a", "m", "p", "l", "e", "/", "m", "e", "w", ".", "p", "n", "g", "?", "v", "=", "2">>, src |-> <<>>,
      alt |-> <<>>],
     [present |-> TRUE, data_src |-> <<>>, src |-> <<"h", "t", "t", "p", "-", "i", "m", "g", "/", "m", "e", "w", ".", "p", "n", "g">>, alt |-> <<>>]}]

\* Containers of a TCG Collector list page; href is that of the parent link.
TCGContainers ==
    [img : {[present |-> FALSE, data_src |-> <<>>, src |-> <<>>, alt |-> <<>>],
     [present |-> TRUE, data_src |-> <<>>, src |-> <<>>, alt |-> <<"M", "e", "w">>],
     [present |-> TRUE, data_src |-> <<"/", "i", "m", "g", "/", "m", "e", "w", ".", "j", "p", "g", "?", "w", "=", "2", "0", "0">>, src |-> <<>>, alt |-> <<"M", "e", "w">>],
     [present |-> TRUE, data_src |-> <<>>, src |-> <<"/", "/", "c", "d", "n", ".", "e", "x", "a", "m", "p", "l", "e", "/", "m", "e", "w", ".", "j", "p", "g">>,
      alt |-> <<>>],
     [present |-> TRUE, data_src |-> <<>>, src |-> <<"d", "a", "t", "a", ":", "i", "m", "a", "g", "e", "/", "p", "n", "g", ";", "b", "a", "s", "e", "6", "4", ",", "A", "A">>,
      alt |-> <<"M", "e", "w">>]},
     name : {<<>>, <<"M", "e", "w">>, <<"M", "e", "w", " ", "{", "H", "o", "l", "o", "}", " ", "#", "7">>},
     number : {<<>>, <<"#", "7">>, <<"0", "0", "7">>, <<"S", "V", "0", "0", "1">>}, href : {<<>>, <<"/", "c", "a", "r", "d", "s", "/", "1", "/", "m", "e", "w">>}]

\* Anchors of the sets page of an adapter.
AnchorsOf(src) ==
    IF src = "pokellector"
    THEN {[has_href |-> TRUE, href |-> <<"/", "B", "a", "s", "e", "-", "S", "e", "t", "-", "E", "x", "p", "a", "n", "s", "i", "o", "n">>, title |-> <<"B", "a", "s", "e", " ", "S", "e", "t">>,
      text |-> <<>>],
     [has_href |-> TRUE, href |-> <<"/", "J", "u", "n", "g", "l", "e", "-", "E", "x", "p", "a", "n", "s", "i", "o", "n", "/">>, title |-> <<>>,
      text |-> <<"J", "u", "n", "g", "l", "e">>],
     [has_href |-> FALSE, href |-> <<>>, title |-> <<"F", "o", "s", "s", "i", "l", " ", "S", "e", "t">>, text |-> <<>>],
     [has_href |-> TRUE, href |-> <<"/", "F", "o", "s", "s", "i", "l">>, title |-> <<>>, text |-> <<>>],
     [has_href |-> TRUE, href |-> <<"/", "!">>, title |-> <<"P", "r", "o", "m", "o", " ", "S", "e", "t">>, text |-> <<>>]}
    ELSE {[has_href |-> TRUE, href |-> <<"/", "s", "e", "t", "s", "/", "1", "/", "b", "a", "s", "e">>, title |-> <<"B", "a", "s", "e", " ", "S", "e", "t">>,
      text |-> <<>>],
     [has_href |-> TRUE, href |-> <<"/", "s", "e", "t", "s", "/", "2", "/", "b", "a", "s", "e", "/">>, title |-> <<>>,
      text |-> <<"B", "a", "s", "e", " ", "S", "e", "t", " ", "2">>],
     [has_href |-> FALSE, href |-> <<>>, title |-> <<"F", "o", "s", "s", "i", "l">>, text |-> <<>>],
     [has_href |-> TRUE, href |-> <<"/", "s", "e", "t", "s", "/", "3", "/", "j", "u", "n", "g", "l", "e">>, title |-> <<>>, text |-> <<>>]}

----------------------------------------------------------------------------
(* Extraction: a behaviour follows one call.  extract holds the call: what  *)
(* was extracted from, the number as the source shows it, and the result.   *)

\* _extract_card_details_from_page(card_soup, card_url, set_info)
ExtractDetailPage(page, card_url) ==
    /\ extract.kind = "none"
    /\ extract' =
          [kind |-> "detail_page", page |-> page, card_url |-> card_url,
           source_number |-> RawCardNumber(LastPart(card_url), page.numbers),
           result |-> extract_card_details_from_page(page, card_url, "base")]
    /\ UNCHANGED <<dlVars, fetch, listing, drv>>

\* _extract_card_from_container(container, card_url, set_info)
ExtractContainer(container, card_url) ==
    /\ extract.kind = "none"
    /\ extract' =
          [kind |-> "container", container |-> container, card_url |-> card_url,
           source_number |-> ContainerNumber(container, card_url),
           result |-> extract_card_from_container(container, card_url, "base")]
    /\ UNCHANGED <<dlVars, fetch, listing, drv>>

\* One container of a TCG Collector list page.
ExtractTCGContainer(container) ==
    /\ extract.kind = "none"
    /\ extract' =
          [kind |-> "tcg_container", container |-> container,
           source_number |-> StripHash(Strip(container.number)),
           result |-> tcg_card_from_container(container, "base")]
    /\ UNCHANGED <<dlVars, fetch, listing, drv>>

\* get_sets() of either adapter on a sets page that was fetched.
GetSets(src, anchors) ==
    /\ extract.kind = "none"
    /\ extract' = [kind |-> "sets", source |-> src, anchors |-> anchors,
                   result |-> get_sets(src, anchors)]
    /\ UNCHANGED <<dlVars, fetch, listing, drv>>

ExtractNext ==
    \/ \E page \in DetailPages, card_url \in CardUrls : ExtractDetailPage(page, card_url)
    \/ \E c \in PokellectorContainers, card_url \in CardUrls : ExtractContainer(c, card_url)
    \/ \E c \in TCGContainers : ExtractTCGContainer(c)
    \/ \E src \in Sources : \E n \in 0..MaxSets : \E anchors \in [1..n -> AnchorsOf(src)] :
          GetSets(src, anchors)

\* The download manager, the fetch client and the driver are at rest while
\* extraction is followed.
ExtractInit == Init /\ source = "pokellector" /\ baseProgressJson = AbsentFile

ExtractSpec == ExtractInit /\ [][ExtractNext]_vars

----------------------------------------------------------------------------
(* Properties of the download manager, checked under Spec. *)

CallPath == call.filepath

CallEnded == call.result \in {"True", "False", "interrupt"}

CallReturned == call.result \in {"True", "False"}

\* C1: for both adapters, download_image on a card whose Download Identity is
\* already in the Progress Set makes no network request and returns success,
\* whether or not the destination file is on disk.
C1_ListedIdentitySkipsNetwork ==
    (CallEnded /\ call.was_listed) => (call.gets = 0 /\ call.result = "True")

\* C2: for both adapters, once download_image has returned for a card whose
\* response body was empty on every attempt, no zero-byte file is at the
\* card's destination path and the call did not return success.
C2_EmptyBodyLeavesNoEmptyFile ==
    (CallReturned /\ call.gets > 0 /\ call.all_empty)
        => /\ call.result /= "True"
           /\ ~(Exists(disk, CallPath) /\ disk[CallPath] = 0)

\* The persisted progress file of the adapter of the current run.
PersistedProgress == IF source = "pokellector" THEN progressJson ELSE baseProgressJson

\* C3: for both adapters, whenever download_image fetched the image over the
\* network and returns success, the identity is in the in-memory Progress Set
\* and the progress file has been rewritten to contain it, by one flush of
\* that call.
C3_SuccessIsFlushedAtOnce ==
    (call.result = "True" /\ call.gets > 0)
        => /\ call.download_id \in downloaded_files
           /\ PersistedProgress.state = "valid"
           /\ call.download_id \in PersistedProgress.ids
           /\ call.flushes = 1

\* C4: for both adapters, a download whose every attempt fails is attempted
\* exactly 3 times, then download_image returns failure, and no file is then
\* at the card's destination path.
C4_ThreeAttemptsThenCleanFailure ==
    (call.result = "False" /\ call.gets > 0)
        => /\ call.gets = MaxDownloadAttempts
           /\ ~Exists(disk, CallPath)

\* C5: for a card whose identity is not in the Progress Set, download_image
\* skips the network call and returns success if and only if the destination
\* file already exists with a size greater than zero; an existing file of size
\* zero is downloaded again.
C5_SkipIffNonEmptyFileExists ==
    (CallEnded /\ ~call.was_listed)
        => ((call.gets = 0 /\ call.result = "True") <=> call.size_before > 0)

\* C6: the Download Identity download_image computes is one-to-one with the
\* final file path: one identity never stands for two destination paths (the
\* same set_code and number downloaded for "en" and for "jp").
C6_IdentityOneToOneWithPath ==
    \A p \in idPaths, q \in idPaths : p[1] = q[1] => p[2] = q[2]

----------------------------------------------------------------------------
(* Properties of the fetch client, checked under FetchSpec. *)

\* A retryable failure as the design lists them.
ListedRetryable(o) ==
    \/ o.kind \in {"Timeout", "ConnectionError"}
    \/ o.kind = "HTTPError" /\ o.status \in RetryableStatuses

\* C7: in get_soup of every adapter, when every attempt fails with a
\* retryable failure (timeout, connection error, HTTP status in
\* {429,500,502,503,504,522,524}), 4 attempts are made in total and then
\* failure is returned.
C7_FourAttemptsOnRetryableFailures ==
    (/\ fetch.pc = "returned"
     /\ \A i \in 1..Len(fetch.outcomes) : ListedRetryable(fetch.outcomes[i]))
        => (fetch.gets = MaxRetries + 1 /\ fetch.result = "None")

NonRetryableHttp(o) ==
    o.kind = "HTTPError" /\ o.status >= 400 /\ o.status < 500 /\ o.status /= 429

\* C8: in get_soup, an attempt that fails with a non-retryable HTTP error (a
\* 4xx status other than 429) ends the fetch at once, at whichever attempt it
\* occurs: it is the last attempt, no sleep follows it, and failure is returned.
C8_NonRetryableHttpFailsAtOnce ==
    \A i \in 1..Len(fetch.outcomes) :
        NonRetryableHttp(fetch.outcomes[i])
            => /\ i = Len(fetch.outcomes)
               /\ fetch.gets = i
               /\ fetch.pc = "returned"
               /\ fetch.result = "None"
               /\ Len(fetch.sleeps) = i - 1

\* A 404 after a retried failure, in PokemonCardScraper.get_soup.
C8_Witness ==
    /\ fetch.source = "pokellector"
    /\ Len(fetch.outcomes) = 3
    /\ ListedRetryable(fetch.outcomes[1])
    /\ fetch.outcomes[3] = [kind |-> "HTTPError", status |-> 404]
    /\ fetch.sleeps = <<1, 2>>
    /\ fetch.result = "None"

\* C9: for every adapter and every sequence of per-attempt outcomes (timeout,
\* connection error, any HTTP error status, unexpected error, success),
\* get_soup returns a document or None and propagates no exception.
C9_GetSoupNeverRaises ==
    (/\ fetch.pc = "returned"
     /\ \A i \in 1..Len(fetch.outcomes) :
            fetch.outcomes[i].kind = "ok" \/ IsException(fetch.outcomes[i]))
        => fetch.result \in {"soup", "None"}

\* An unexpected error after a retried timeout, in PokemonCardScraper.get_soup.
C9_Witness ==
    /\ fetch.source = "pokellector"
    /\ fetch.pc = "returned"
    /\ Len(fetch.outcomes) = 2
    /\ fetch.outcomes[1].kind = "Timeout"
    /\ fetch.outcomes[2].kind = "Exception"
    /\ fetch.result = "None"

----------------------------------------------------------------------------
(* Properties of the pagination, checked under PageSpec. *)

PageCap(src) == IF src = "pokellector" THEN PokellectorPageCap ELSE TCGMaxPages

\* C10: for a set whose every list page contains a "next page" control,
\* get_cards_from_set processes at most the adapter's page cap of list pages
\* (20 for PokemonCardScraper, 50 for TCGCollectorScraper): with the cap
\* reached it has returned, and it returns the cards collected so far.
C10_PaginationStopsAtPageCap ==
    (listing.pc /= "none" /\ listing.every_next)
        => /\ listing.pages_done <= PageCap(listing.source)
           /\ listing.pages_done = PageCap(listing.source)
                 => (listing.pc = "returned" /\ listing.result = listing.cards)

\* Twenty pages of PokemonCardScraper, each with a "next page" control.
C10_Witness ==
    /\ listing.source = "pokellector"
    /\ listing.pc = "returned"
    /\ listing.every_next
    /\ listing.pages_done = PokellectorPageCap
    /\ Len(listing.result) = NumCards

----------------------------------------------------------------------------
(* Properties of the archive, checked under Spec. *)

\* C13: for both adapters, after create_zip_archive succeeds the entries of
\* the archive are exactly the image files under the output root that
\* download_image reported as downloaded: none is missing, and no other file
\* (the progress file, a file left by a failed or partial download, an earlier
\* archive) is included.
C13_ArchiveHoldsExactlyTheDownloads ==
    zipped.result = "path"
        => zipped.entries = {p \in zipped.reported : p[1] = output_dir}

----------------------------------------------------------------------------
(* Properties of the driver, checked under MainSpec. *)

\* C11: for every adapter, when the user interrupts a run (KeyboardInterrupt)
\* after the scraper was constructed, the Progress Set is written to the
\* persisted state file before main exits: the finally clause flushes once,
\* and a flush that succeeds leaves the file holding the Progress Set.
C11_InterruptStillFlushes ==
    (drv.pc = "exited" /\ drv.ending = "interrupt")
        => /\ drv.flushes = 1
           /\ drv.flushed_ok
                 => PersistedProgress = [state |-> "valid", ids |-> downloaded_files]

\* C12: in the loop over the selected sets, an error raised while one set is
\* extracted or downloaded is caught (it does not end main), extraction is
\* called for the selected sets in their order, and once the loop is left
\* without Ctrl-C every selected set has been extracted, the ones after the
\* failing set included.
C12_LaterSetsStillProcessed ==
    /\ Len(drv.extracted) <= Len(drv.selected)
    /\ drv.extracted = SubSeq(drv.selected, 1, Len(drv.extracted))
    /\ drv.errors /= {} => drv.ending /= "exception"
    /\ (drv.errors /= {} /\ drv.pc \in {"archive", "finally", "exited"}
            /\ drv.ending /= "interrupt")
          => drv.extracted = drv.selected

\* The first selected set failed in extraction, the second was extracted and a
\* card of it downloaded, and main ended normally.
C12_Witness ==
    /\ drv.pc = "exited" /\ drv.ending = "normal"
    /\ 1 \in drv.errors
    /\ Len(drv.selected) = 2 /\ drv.extracted = drv.selected
    /\ drv.successful_downloads > 0

\* C14: every run of main that gets past set discovery and through its loop
\* ends by reporting the number of cards discovered, the number of cards
\* downloaded, and the archive path or the reason there is no archive; with a
\* download succeeded and the archive failed the counts are still reported.
C14_FinalSummaryAlwaysReported ==
    (drv.pc = "exited" /\ drv.ending = "normal" /\ drv.selected /= <<>>)
        => /\ "cards_discovered" \in drv.summary
           /\ "cards_downloaded" \in drv.summary \/ "no_cards_downloaded" \in drv.summary
           /\ \/ "archive_path" \in drv.summary
              \/ "archive_failure_reason" \in drv.summary
              \/ "no_cards_downloaded" \in drv.summary

----------------------------------------------------------------------------
(* Properties of the records of one set, checked under PageSpec. *)

\* C19: for both adapters, the sequence get_cards_from_set builds and returns
\* for one set never holds two records with the same resolved card_url, also
\* when a card is on several list pages or several containers have no link
\* of their own.
C19_NoTwoRecordsShareCardUrl ==
    \A i, j \in 1..Len(listing.cards) :
        i /= j => listing.cards[i] /= listing.cards[j]


----------------------------------------------------------------------------
(* Properties of extraction, checked under ExtractSpec. *)

\* A record was extracted from a card's page or container.
RecordEmitted ==
    /\ extract.kind \in {"detail_page", "container", "tcg_container"}
    /\ ~extract.result.none

\* A decimal numeral without its leading zeros (the last digit stays).
RECURSIVE WithoutLeadingZeros(_)
WithoutLeadingZeros(n) ==
    IF Len(n) > 1 /\ Head(n) = "0" THEN WithoutLeadingZeros(Tail(n)) ELSE n

\* C15: every record extracted on the detail-page path, on the container
\* path or by the TCG Collector adapter from a purely numeric source number
\* has a number of exactly 3 digits: the source number without its leading
\* zeros, left-padded with zeros.
C15_NumberIsThreeDigits ==
    (RecordEmitted /\ IsDecimal(extract.source_number)) =>
        /\ Len(extract.result.number) = 3
        /\ extract.result.number = ZFill(WithoutLeadingZeros(extract.source_number), 3)

\* The run of digits that ends s.
RECURSIVE TrailingDigits(_)
TrailingDigits(s) ==
    IF s = <<>> \/ ~IsDigit(s[Len(s)]) THEN <<>>
    ELSE TrailingDigits(SubSeq(s, 1, Len(s) - 1)) \o <<s[Len(s)]>>

\* s has the form Name-Card-<N>: a non-empty name, "-Card-", a run of digits.
HasCardForm(s) ==
    LET n == Len(TrailingDigits(s))
    IN  /\ n > 0
        /\ Len(s) - n > 6
        /\ SubSeq(s, Len(s) - n - 5, Len(s) - n) = <<"-", "C", "a", "r", "d", "-">>

\* C16: whatever the page holds, the record extracted from the detail page
\* of a card whose URL ends in Name-Card-<N> has the number N, zero-padded to
\* 3 digits.
C16_CardFormUrlGivesItsNumber ==
    (/\ extract.kind = "detail_page"
     /\ HasCardForm(LastPart(extract.card_url))
     /\ ~extract.result.none) =>
        extract.result.number =
            ZFill(WithoutLeadingZeros(TrailingDigits(LastPart(extract.card_url))), 3)

\* A record from a card URL whose name holds digits itself, on a page that
\* shows another number.
C16_Witness ==
    /\ extract.kind = "detail_page"
    /\ HasCardForm(LastPart(extract.card_url))
    /\ FirstDigitRun(LastPart(extract.card_url)) /= TrailingDigits(LastPart(extract.card_url))
    /\ extract.page.numbers /= <<>>
    /\ ~extract.result.none
    /\ extract.result.number = <<"0", "1", "8">>

\* C17: no record is emitted without an image: on the detail-page path, the
\* container path and the TCG Collector path, an item for which no image URL
\* is found gives no record, so no record has an empty image URL.
C17_NoRecordWithoutImage == RecordEmitted => extract.result.image_url /= <<>>

\* C18: the image URL of every record extracted, on every path of both
\* adapters, is absolute and scheme-qualified (it starts with http:// or
\* https://) and has no query string.
C18_ImageUrlAbsoluteWithoutQuery ==
    RecordEmitted =>
        /\ \/ StartsWith(extract.result.image_url, <<"h", "t", "t", "p", ":", "/", "/">>)
           \/ StartsWith(extract.result.image_url, <<"h", "t", "t", "p", "s", ":", "/", "/">>)
        /\ \A i \in 1..Len(extract.result.image_url) : extract.result.image_url[i] /= "?"

\* The codes of the descriptors of one get_sets call.
ReturnedCodes == {extract.result[i].code : i \in 1..Len(extract.result)}

\* C20: every descriptor get_sets returns has a non-empty name and a
\* non-empty code, and no two descriptors of one call have the same code.
C20_SetCodesNonEmptyAndUnique ==
    extract.kind = "sets" =>
        /\ \A i \in 1..Len(extract.result) :
              extract.result[i].name /= <<>> /\ extract.result[i].code /= <<>>
        /\ Cardinality(ReturnedCodes) = Len(extract.result)

\* A text holds an annotation in brackets or braces.
HasBracketed(s) ==
    \E i \in 1..Len(s) : \E j \in (i + 1)..Len(s) :
        s[i] \in {"[", "{"} /\ s[j] \in {"]", "}"}

\* A text ends in #<digits>.
HasHashTail(s) ==
    LET n == Len(TrailingDigits(s))
    IN  n > 0 /\ Len(s) > n /\ s[Len(s) - n] = "#"

\* C23: the name of every record extracted, on every path, has no bracketed
\* or braced annotation, no trailing #<digits> and no blank at either end.
C23_NameIsCleaned ==
    RecordEmitted =>
        /\ ~HasBracketed(extract.result.name)
        /\ ~HasHashTail(extract.result.name)
        /\ extract.result.name = Strip(extract.result.name)

\* What each strategy for the card number yields, in the priority order:
\* the five patterns on the last part of the URL, then the page.
StrategyValues(last_part, elems) ==
    <<CardSuffixPattern(last_part), SeparatorSuffixPattern(last_part),
      HashPattern(last_part), FirstDigitRun(last_part), ShortRunPattern(last_part),
      PageNumber(elems)>>

\* C26: on the detail-page path the card number is the value of the first
\* strategy, in the priority order, that yields one: no strategy overrides
\* one before it, and the page counts only when no URL pattern matched.
C26_FirstStrategyWins ==
    extract.kind = "detail_page" =>
        LET v == StrategyValues(LastPart(extract.card_url), extract.page.numbers)
            hits == {k \in 1..6 : v[k] /= <<>>}
        IN  /\ (hits = {}) => extract.result.none
            /\ (hits /= {}) => extract.source_number = v[Least(hits)]
            /\ (hits /= {} /\ ~extract.result.none) =>
                  extract.result.number = ZFill(WithoutLeadingZeros(v[Least(hits)]), 3)

\* A record for which three strategies yield three different numbers (the
\* Card suffix 6, the loose pattern 2, the page 99) and the first one wins.
C26_Witness ==
    /\ extract.kind = "detail_page"
    /\ ~extract.result.none
    /\ LET v == StrategyValues(LastPart(extract.card_url), extract.page.numbers)
       IN  v[1] = <<"6">> /\ v[4] = <<"2">> /\ v[6] = <<"9", "9">>
    /\ extract.result.number = <<"0", "0", "6">>

\* The candidates of the image selectors, resolved and without their query.
ImageCandidates ==
    [k \in 1..Len(extract.page.images) |->
        BeforeFirst(ResolvedImage(extract.page.images[k]), "?")]

\* C27: on the detail-page path the image URL of a record is that of the
\* first candidate, in selector order, whose resolved URL path ends in a
\* known image extension; no other candidate is used.
C27_FirstImageCandidateWins ==
    (extract.kind = "detail_page" /\ ~extract.result.none) =>
        LET good == {k \in 1..Len(ImageCandidates) : HasImageSuffix(ImageCandidates[k])}
        IN  /\ good /= {}
            /\ extract.result.image_url = ImageCandidates[Least(good)]

----------------------------------------------------------------------------
(* Properties of the Progress Set across runs, checked under Spec. *)

\* The destination path of a card under the output root and language in use.
PathInUse(card) ==
    IF source = "pokellector" THEN PokellectorFilepath(output_dir, language, card)
    ELSE TCGFilepath(output_dir, language, card)

\* C28: at every point of a run, also of a later run with another language,
\* every Download Identity in the Progress Set has a non-empty file at its
\* destination path under the output root in use (nothing but the program
\* touches the files).
C28_ListedIdentityHasItsFile ==
    phase /= "idle" =>
        \A card \in CardsOf(source) :
            (IF source = "pokellector" THEN DownloadId(card) ELSE TCGDownloadId(card))
                \in downloaded_files
            => /\ Exists(disk, PathInUse(card))
               /\ disk[PathInUse(card)] > 0

----------------------------------------------------------------------------
(* Properties of the driver's counters, checked under MainSpec. *)

\* The download loop of the last set that had cards has run to its end.
SetLoopEnded ==
    /\ drv.ncards > 0
    /\ \/ drv.pc \in {"set_loop", "archive"}
       \/ drv.pc \in {"finally", "exited"} /\ drv.ending = "normal"

\* C29: at every point of a run successful_downloads is at most total_cards,
\* the success_count of a set is at most the number of cards extracted for
\* it, and each extracted card is passed to download_image once: never twice,
\* and all of them when the loop over the set has ended.
C29_CountersAreConsistent ==
    /\ drv.successful_downloads <= drv.total_cards
    /\ drv.success_count <= drv.ncards
    /\ \A c \in DOMAIN drv.passed : drv.passed[c] <= 1
    /\ SetLoopEnded => /\ DOMAIN drv.passed = 1..drv.ncards
                       /\ \A c \in 1..drv.ncards : drv.passed[c] = 1

\* Two sets were processed, the second with two cards of which one was
\* downloaded and one failed, and main has ended normally.
C29_Witness ==
    /\ drv.pc = "exited" /\ drv.ending = "normal"
    /\ Len(drv.extracted) = 2
    /\ drv.ncards = 2 /\ drv.success_count = 1
    /\ drv.total_cards > drv.successful_downloads
    /\ drv.successful_downloads > drv.success_count

----------------------------------------------------------------------------
(* Properties of the first list page, checked under ScanSpec. *)

\* The call has ended its work on page 1: it returned, or it goes on to
\* fetch page 2.
PageOneEnded == listing.pc \in {"returned", "paging"}

\* C21: an item for which no number can be recovered gives no record (the
\* extraction returns null), and PokemonCardScraper.get_cards_from_set goes
\* on with the next item of the page: reading such an item leaves the
\* records as they are and the scan on the item after it, and the call never
\* leaves page 1 before it has read every item of it.
C21_NullItemIsSkipped ==
    /\ [](listing.pc /= "none" /\ listing.source = "pokellector" /\ PageOneEnded
             /\ listing.single = "null"
          => listing.done = listing.page.items)
    /\ [][listing.pc = "scan" /\ listing.source = "pokellector" /\ listing.items /= <<>>
             /\ Head(listing.items).outcome = "null"
          => /\ listing'.pc = "scan"
             /\ listing'.cards = listing.cards
             /\ listing'.items = Tail(listing.items)]_vars

\* A page whose first item gave no number and whose second item is in the
\* result.
C21_Witness ==
    /\ listing.pc = "returned" /\ listing.source = "pokellector"
    /\ Len(listing.done) = 2
    /\ listing.done[1].href /= "" /\ listing.done[1].outcome = "null"
    /\ listing.done[2].href /= listing.done[1].href
    /\ listing.result = <<UrlJoin(BaseUrl("pokellector"), listing.done[2].href)>>

\* C22: for both adapters, a list page that was fetched and has no card
\* container and no card link makes get_cards_from_set return the empty
\* sequence, with no further page fetched.
C22_EmptyListPageReturnsEmpty ==
    listing.pc /= "none" /\ PageOneEnded /\ listing.page.items = <<>>
    => listing.pc = "returned" /\ listing.result = <<>>

\* C24: the candidate list URLs are fetched in the order bare set URL,
\* /cards, /all, each one only after those before it failed.
C24_CandidatesInStatedOrder ==
    listing.pc /= "none" /\ listing.source = "pokellector"
    => /\ Len(listing.tried) <= 3
       /\ \A k \in 1..Len(listing.tried) :
             listing.tried[k] = SetUrl("pokellector") \o <<"", "/cards", "/all">>[k]

\* C25: when the first fetched page gives a record as a card detail page
\* the call returns exactly that record, no item of the page is read and no
\* further page is fetched; when it gives none, the items read are those of
\* that same page and no list URL has been fetched twice.
C25_SinglePageShortCircuits ==
    listing.pc /= "none" /\ listing.source = "pokellector"
    => /\ listing.single = "valid"
          => /\ listing.pc = "returned"
             /\ listing.result = <<listing.tried[Len(listing.tried)]>>
             /\ listing.done = <<>> /\ listing.items = <<>>
       /\ listing.single = "null"
          => /\ listing.done \o listing.items = listing.page.items
             /\ \A i, j \in 1..Len(listing.tried) :
                   listing.tried[i] = listing.tried[j] => i = j

\* A page with containers and a next-page link that is returned as one record.
C25_Witness ==
    /\ listing.pc = "returned" /\ listing.source = "pokellector"
    /\ listing.single = "valid"
    /\ listing.page.kind = "containers" /\ listing.page.next
    /\ Len(listing.result) = 1

====
